---------------------------- MODULE Spec2Model ----------------------------
(***************************************************************************)
(* Model of openpeerpower/config.py: the package merger                    *)
(* (merge_packages_config, _recursive_merge), the component config         *)
(* validator (async_process_component_config) with its error reporter,     *)
(* and the core config processor (async_process_ha_core_config).           *)
(*                                                                         *)
(* Configuration values are tagged records of one shape, so that any two    *)
(* values can be compared:                                                 *)
(*   t = "null"  : None                                                    *)
(*   t = "str"   : a scalar, s is its text                                 *)
(*   t = "dict"  : an ordered mapping, d is the sequence of <<key, value>>  *)
(*                 pairs in insertion order (keys distinct)                *)
(*   t = "list"  : a list, l is the sequence of its items                  *)
(* A key (and a package or component name) is a text: a sequence of        *)
(* strings.  A component name is the sequence of its words and of the      *)
(* single spaces between them (<<"light", " ", "2">> is 'light 2'); a      *)
(* package name is the sequence of its characters.                        *)
(***************************************************************************)
EXTENDS Integers, Sequences, FiniteSets, TLC

VARIABLES
    config,        \* the configuration tree (top-level dict value)
    config0,       \* the tree as it was on entry of the last call
    packages,      \* the packages mapping handed to merge_packages_config
    pkg_errors,    \* calls of _log_pkg_error, in order
    outcome,       \* "init", "returned", "invalid" (vol.Invalid raised),
                   \* "attribute_error" (AttributeError raised)
    processed,     \* the domains set up so far, in order, each with what
                   \* async_process_component_config returned for it
    reporter,      \* the error reporter: opp.data[DATA_PERSISTENT_ERRORS],
                   \* the 'invalid_config' notification and the error log
    opp,           \* what async_process_ha_core_config writes of opp:
                   \* auth, config (the CoreConfig) and data[DATA_CUSTOMIZE]
    core_call,     \* the last call of async_process_ha_core_config: its
                   \* arguments (and the section of the call before), opp on
                   \* entry, the lookups it made, how it ended
    ncalls,        \* the number of calls of async_process_ha_core_config
    auth_builds,   \* the number of calls of auth.auth_manager_from_config
    reports,       \* the direct calls of async_notify_setup_error so far:
                   \* the component and the display_link of each, in order
    auth_configs,  \* the list handed to a duplicate check of the auth lists
    auth_checked   \* what the check did: which check, and its result

mergeVars == <<config0, packages, pkg_errors, outcome>>
validateVars == <<processed, reporter>>
coreVars == <<opp, core_call, ncalls, auth_builds>>
notifyVars == <<reports>>
authVars == <<auth_configs, auth_checked>>
vars == <<config, config0, packages, pkg_errors, outcome, processed, reporter,
          opp, core_call, ncalls, auth_builds, reports, auth_configs, auth_checked>>

-----------------------------------------------------------------------------
(* Values *)

None == [t |-> "null", s |-> "", d |-> <<>>, l |-> <<>>]
Str(x) == [t |-> "str", s |-> x, d |-> <<>>, l |-> <<>>]
Dict(pairs) == [t |-> "dict", s |-> "", d |-> pairs, l |-> <<>>]
List(items) == [t |-> "list", s |-> "", d |-> <<>>, l |-> items]

IsNone(v) == v.t = "null"
IsDict(v) == v.t = "dict"
IsList(v) == v.t = "list"

\* Python truthiness of a value: None, {} and [] are falsy (so is '').
Falsy(v) ==
    \/ v.t = "null"
    \/ v.t = "dict" /\ v.d = <<>>
    \/ v.t = "list" /\ v.l = <<>>
    \/ v.t = "str" /\ v.s = ""

Keys(v) == {v.d[i][1] : i \in 1..Len(v.d)}
HasKey(v, k) == \E i \in 1..Len(v.d) : v.d[i][1] = k
Index(v, k) == CHOOSE i \in 1..Len(v.d) : v.d[i][1] = k

\* dict.get(k): None when the key is absent
Get(v, k) == IF HasKey(v, k) THEN v.d[Index(v, k)][2] ELSE None
\* dict.get(k, default)
GetDefault(v, k, default) == IF HasKey(v, k) THEN v.d[Index(v, k)][2] ELSE default
\* d[k] = x: an existing key keeps its position, a new key goes last
Put(v, k, x) ==
    IF HasKey(v, k)
    THEN Dict([v.d EXCEPT ![Index(v, k)] = <<k, x>>])
    ELSE Dict(Append(v.d, <<k, x>>))

\* cv.ensure_list: None becomes [], a list stays, anything else is wrapped
ensure_list(v) ==
    IF IsNone(v) THEN List(<<>>)
    ELSE IF IsList(v) THEN v
    ELSE List(<<v>>)

\* list.extend
Extend(a, b) == List(a.l \o b.l)

-----------------------------------------------------------------------------
(* The state async_process_ha_core_config works on *)

\* core.Config(): no location, no time zone, no units, no whitelist
NewCoreConfig ==
    [latitude |-> None, longitude |-> None, elevation |-> None,
     location_name |-> None, time_zone |-> None, units |-> None,
     whitelist_external_dirs |-> {}]

\* opp before the first call: no attribute 'auth', no DATA_CUSTOMIZE
NewOpp == [auth |-> None, config |-> NewCoreConfig, customize |-> None]

\* no call of async_process_ha_core_config yet
NoCall ==
    [config |-> None, previous |-> None, api_password |-> None,
     trusted_networks |-> None,
     before |-> NewOpp, explicit |-> NewCoreConfig, lookups |-> <<>>,
     discovered |-> <<>>, raised |-> FALSE, built |-> FALSE]

\* no duplicate check made yet
NotChecked == [check |-> "none", ok |-> TRUE, value |-> None]

\* nothing reported directly, no list checked
InitIdle ==
    /\ reports = <<>>
    /\ auth_configs = List(<<>>)
    /\ auth_checked = NotChecked

InitCore ==
    /\ opp = NewOpp
    /\ core_call = NoCall
    /\ ncalls = 0
    /\ auth_builds = 0


-----------------------------------------------------------------------------
(* _recursive_merge *)

\* error = False (and the falsy key '')
NoError == <<>>

\* conf[key] = cv.ensure_list(conf.get(key)); conf[key].extend(...)
MergeList(conf, key, pack_conf) ==
    Put(conf, key, Extend(ensure_list(Get(conf, key)), ensure_list(pack_conf)))

\* conf.get(key) is not None: the destination already holds a value
DuplicateKey(conf, key) == ~IsNone(Get(conf, key))

\* Mutant: the nested destination always starts empty
SubConf_Fresh(conf, key) == Dict(<<>>)

\* conf.get(key, OrderedDict()): the nested destination of a dict value
SubConf(conf, key) == GetDefault(conf, key, Dict(<<>>))

RECURSIVE _recursive_merge(_, _)
RECURSIVE MergeItems(_, _, _, _)

\* The loop of _recursive_merge from item i on, error being the local
\* variable.  conf is only read with conf.get, which raises AttributeError
\* when conf is not a dict; the result carries the (mutated) conf, the
\* returned error and whether the call raised.
MergeItems(conf, items, i, error) ==
    IF i > Len(items)
    THEN [conf |-> conf, error |-> error, raised |-> FALSE]
    ELSE LET key == items[i][1]
             pack_conf == items[i][2]
             Raise == [conf |-> conf, error |-> error, raised |-> TRUE]
         IN
         IF IsDict(pack_conf) THEN
             IF pack_conf.d = <<>> THEN MergeItems(conf, items, i + 1, error)
             ELSE IF ~IsDict(conf) THEN Raise
             ELSE LET sub == SubConf(conf, key)
                      r == _recursive_merge(sub, pack_conf)
                      conf1 == Put(conf, key, r.conf)
                  IN IF r.raised
                     THEN [conf |-> conf1, error |-> error, raised |-> TRUE]
                     ELSE MergeItems(conf1, items, i + 1, r.error)
         ELSE IF IsList(pack_conf) THEN
             IF pack_conf.l = <<>> THEN MergeItems(conf, items, i + 1, error)
             ELSE IF ~IsDict(conf) THEN Raise
             ELSE MergeItems(MergeList(conf, key, pack_conf), items, i + 1, error)
         ELSE
             IF ~IsDict(conf) THEN Raise
             ELSE IF DuplicateKey(conf, key)
             THEN [conf |-> conf, error |-> key, raised |-> FALSE]
             ELSE MergeItems(Put(conf, key, pack_conf), items, i + 1, error)

_recursive_merge(conf, package) == MergeItems(conf, package.d, 1, NoError)

-----------------------------------------------------------------------------
(* The integration loader and the components it resolves *)

CONF_CORE == <<"openpeerpower">>

\* str(module.CONFIG_SCHEMA.schema[module.DOMAIN]) as a sequence of tokens;
\* NoSchema stands for a missing attribute or key.
NoSchema == <<"<missing>">>

\* What async_get_integration and get_component give for a domain:
\*   found      : FALSE raises IntegrationNotFound
\*   importable : FALSE makes get_component raise ImportError
\*   platform   : the component has PLATFORM_SCHEMA
\*   schema     : the component has CONFIG_SCHEMA
\*   t_schema   : str() of its CONFIG_SCHEMA entry for the domain
Component(found, importable, platform, schema, t_schema) ==
    [found |-> found, importable |-> importable, platform |-> platform,
     schema |-> schema, t_schema |-> t_schema]

Integrations ==
    [d \in {"http", "zone", "alert", "script", "light", "sun", "broken", "ghost", ""} |->
        CASE d = "http"   -> Component(TRUE, TRUE, FALSE, TRUE, <<"{", "'server_port': port", "}">>)
          [] d = "zone"   -> Component(TRUE, TRUE, FALSE, TRUE, <<"[", "zone entry", "]">>)
          [] d = "alert"  -> Component(TRUE, TRUE, FALSE, TRUE, <<"All(<function ensure_list", ")">>)
          [] d = "script" -> Component(TRUE, TRUE, FALSE, TRUE, <<"All(", "script entries", ")">>)
          [] d = "light"  -> Component(TRUE, TRUE, TRUE, FALSE, NoSchema)
          [] d = "sun"    -> Component(TRUE, TRUE, FALSE, FALSE, NoSchema)
          [] d = "broken" -> Component(TRUE, FALSE, FALSE, FALSE, NoSchema)
          [] OTHER        -> Component(FALSE, FALSE, FALSE, FALSE, NoSchema)]

async_get_integration(domain) ==
    IF domain \in DOMAIN Integrations THEN Integrations[domain] ELSE Integrations["ghost"]

\* comp_name.split(' ')[0]: the text before the first space ('' when the
\* name starts with a space)
FirstToken(comp_name) ==
    IF comp_name = <<>> \/ comp_name[1] = " " THEN "" ELSE comp_name[1]

\* _identify_config_schema: "dict", "list", "" (neither) or "none" (no entry)
_identify_config_schema(component) ==
    LET t_schema == component.t_schema IN
    IF ~component.schema \/ t_schema = NoSchema THEN "none"
    ELSE IF t_schema[1] = "{" \/ (\E i \in 1..Len(t_schema) : t_schema[i] = "schema_with_slug_keys")
    THEN "dict"
    ELSE IF t_schema[1] = "[" \/ t_schema[1] = "All(<function ensure_list"
    THEN "list"
    ELSE ""

-----------------------------------------------------------------------------
(* PACKAGES_CONFIG_SCHEMA *)

SlugChars ==
    {"a", "b", "c", "d", "e", "f", "g", "h", "i", "j", "k", "l", "m", "n", "o", "p",
     "q", "r", "s", "t", "u", "v", "w", "x", "y", "z",
     "0", "1", "2", "3", "4", "5", "6", "7", "8", "9", "_"}

\* cv.slug on a package name (a sequence of characters)
IsSlug(name) == \A i \in 1..Len(name) : name[i] \in SlugChars

\* vol.Schema({cv.string: vol.Any(dict, list, None)}) on one package
ValidPackage(pack_conf) ==
    /\ IsDict(pack_conf)
    /\ \A j \in 1..Len(pack_conf.d) : pack_conf.d[j][2].t \in {"dict", "list", "null"}

\* cv.schema_with_slug_keys(...): TRUE when the call returns, FALSE when it
\* raises vol.Invalid
PACKAGES_CONFIG_SCHEMA(pkgs) ==
    /\ IsDict(pkgs)
    /\ \A i \in 1..Len(pkgs.d) : IsSlug(pkgs.d[i][1]) /\ ValidPackage(pkgs.d[i][2])

-----------------------------------------------------------------------------
(* merge_packages_config *)

\* _log_pkg_error(package, component, config, message); a duplicate key is
\* part of the message in the source and a field of its own here
PkgError(pack_name, comp_name, message, key) ==
    [package |-> pack_name, component |-> comp_name, message |-> message, key |-> key]

DOES_NOT_EXIST == "does not exist"
UNABLE_TO_IMPORT == "unable to import"
EXPECTED_A_DICT == "cannot be merged. Expected a dict."
DICT_IN_MAIN == "cannot be merged. Dict expected in main config."
DUPLICATE_KEY == "has duplicate key"

\* Mutant: a component that cannot be imported is taken as resolved
ResolveError_NoImportCheck(domain) ==
    IF ~async_get_integration(domain).found THEN DOES_NOT_EXIST ELSE ""

\* The two try blocks around async_get_integration and get_component: the
\* message logged for the entry, or "" when the component is resolved
ResolveError(domain) ==
    IF ~async_get_integration(domain).found THEN DOES_NOT_EXIST
    ELSE IF ~async_get_integration(domain).importable THEN UNABLE_TO_IMPORT
    ELSE ""

\* Mutant: a config schema that is neither a dict nor a list counts as a list
ListMerged_Unclassified(component) ==
    \/ component.platform
    \/ component.schema /\ _identify_config_schema(component) \in {"list", ""}

\* hasattr(component, 'PLATFORM_SCHEMA'), or CONFIG_SCHEMA identified as a list
ListMerged(component) ==
    \/ component.platform
    \/ component.schema /\ _identify_config_schema(component) = "list"

\* if not comp_conf: continue
SkipFragment(comp_conf) == Falsy(comp_conf)

\* Mutant: the fragment replaces the entry instead of extending it
AppendFragment_Replace(cfg, comp_name, comp_conf) ==
    Put(cfg, comp_name, ensure_list(comp_conf))

\* config[comp_name] = cv.ensure_list(config.get(comp_name))
\* config[comp_name].extend(cv.ensure_list(comp_conf))
AppendFragment(cfg, comp_name, comp_conf) ==
    Put(cfg, comp_name, Extend(ensure_list(Get(cfg, comp_name)), ensure_list(comp_conf)))

\* Mutant: the entry of the tree is made a mapping before the fragment is
\* looked at
DictMergeEntry_CreateFirst(st, pack_name, comp_name, comp_conf0) ==
    LET comp_conf == IF IsNone(comp_conf0) THEN Dict(<<>>) ELSE comp_conf0
        cfg1 == IF ~HasKey(st.config, comp_name) \/ IsNone(Get(st.config, comp_name))
                THEN Put(st.config, comp_name, Dict(<<>>))
                ELSE st.config
        Log(cfg, message, key) ==
            [config |-> cfg, raised |-> FALSE,
             errors |-> Append(st.errors, PkgError(pack_name, comp_name, message, key))]
    IN
    IF ~IsDict(comp_conf) THEN Log(cfg1, EXPECTED_A_DICT, NoError)
    ELSE IF ~IsDict(Get(cfg1, comp_name)) THEN Log(cfg1, DICT_IN_MAIN, NoError)
    ELSE
        LET r == _recursive_merge(Get(cfg1, comp_name), comp_conf)
            cfg2 == Put(cfg1, comp_name, r.conf)
        IN
        IF r.raised THEN [config |-> cfg2, errors |-> st.errors, raised |-> TRUE]
        ELSE IF r.error # NoError THEN Log(cfg2, DUPLICATE_KEY, r.error)
        ELSE [config |-> cfg2, errors |-> st.errors, raised |-> FALSE]

\* The dict merge of one entry, from 'if comp_conf is None' on
DictMergeEntry(st, pack_name, comp_name, comp_conf0) ==
    LET comp_conf == IF IsNone(comp_conf0) THEN Dict(<<>>) ELSE comp_conf0
        Log(cfg, message, key) ==
            [config |-> cfg, raised |-> FALSE,
             errors |-> Append(st.errors, PkgError(pack_name, comp_name, message, key))]
    IN
    IF ~IsDict(comp_conf) THEN Log(st.config, EXPECTED_A_DICT, NoError)
    ELSE
        LET cfg1 == IF ~HasKey(st.config, comp_name) \/ IsNone(Get(st.config, comp_name))
                    THEN Put(st.config, comp_name, Dict(<<>>))
                    ELSE st.config
        IN
        IF ~IsDict(Get(cfg1, comp_name)) THEN Log(cfg1, DICT_IN_MAIN, NoError)
        ELSE
            LET r == _recursive_merge(Get(cfg1, comp_name), comp_conf)
                cfg2 == Put(cfg1, comp_name, r.conf)
            IN
            IF r.raised THEN [config |-> cfg2, errors |-> st.errors, raised |-> TRUE]
            ELSE IF r.error # NoError THEN Log(cfg2, DUPLICATE_KEY, r.error)
            ELSE [config |-> cfg2, errors |-> st.errors, raised |-> FALSE]

\* Mutant: the fragment is merged under the first token of its key
MergeEntry_StrippedKey(st, pack_name, comp_name, comp_conf) ==
    LET domain == FirstToken(comp_name)
        component == async_get_integration(domain)
    IN
    IF comp_name = CONF_CORE THEN st
    ELSE IF ResolveError(domain) # ""
    THEN [st EXCEPT !.errors =
              Append(@, PkgError(pack_name, comp_name, ResolveError(domain), NoError))]
    ELSE IF ListMerged(component) THEN
        IF SkipFragment(comp_conf) THEN st
        ELSE [st EXCEPT !.config = AppendFragment(st.config, <<domain>>, comp_conf)]
    ELSE DictMergeEntry(st, pack_name, <<domain>>, comp_conf)

\* The body of the inner loop for one package entry; st is
\* [config, errors, raised] before the entry, the result is st after it.
MergeEntry(st, pack_name, comp_name, comp_conf) ==
    LET domain == FirstToken(comp_name)
        component == async_get_integration(domain)
    IN
    IF comp_name = CONF_CORE THEN st
    ELSE IF ResolveError(domain) # ""
    THEN [st EXCEPT !.errors =
              Append(@, PkgError(pack_name, comp_name, ResolveError(domain), NoError))]
    ELSE IF ListMerged(component) THEN
        IF SkipFragment(comp_conf) THEN st
        ELSE [st EXCEPT !.config = AppendFragment(st.config, comp_name, comp_conf)]
    ELSE DictMergeEntry(st, pack_name, comp_name, comp_conf)

RECURSIVE MergeEntries(_, _, _, _)
\* for comp_name, comp_conf in pack_conf.items(), from entry j on
MergeEntries(st, pack_name, entries, j) ==
    IF st.raised \/ j > Len(entries) THEN st
    ELSE MergeEntries(MergeEntry(st, pack_name, entries[j][1], entries[j][2]),
                      pack_name, entries, j + 1)

RECURSIVE MergePackages(_, _, _)
\* for pack_name, pack_conf in packages.items(), from package i on
MergePackages(st, packs, i) ==
    IF st.raised \/ i > Len(packs) THEN st
    ELSE MergePackages(MergeEntries(st, packs[i][1], packs[i][2].d, 1), packs, i + 1)

\* Mutant: the packages are merged without being validated first
merge_packages_config_Unchecked(cfg, pkgs) ==
    LET st == MergePackages([config |-> cfg, errors |-> <<>>, raised |-> FALSE],
                            pkgs.d, 1)
    IN [config |-> st.config, errors |-> st.errors,
        outcome |-> IF st.raised THEN "attribute_error" ELSE "returned"]

\* The whole call: [config, errors, outcome]
merge_packages_config(cfg, pkgs) ==
    IF ~PACKAGES_CONFIG_SCHEMA(pkgs)
    THEN [config |-> cfg, errors |-> <<>>, outcome |-> "invalid"]
    ELSE LET st == MergePackages([config |-> cfg, errors |-> <<>>, raised |-> FALSE],
                                 pkgs.d, 1)
         IN [config |-> st.config, errors |-> st.errors,
             outcome |-> IF st.raised THEN "attribute_error" ELSE "returned"]

-----------------------------------------------------------------------------
(* The error reporter: async_notify_setup_error and async_log_exception *)

\* errors: opp.data[DATA_PERSISTENT_ERRORS], a dict from component name to
\*   the display-link flag, as pairs in insertion order (<<>>: not created)
\* notification: the parts of the message of the notification
\*   'invalid_config', one per component (<<>>: none created)
\* log: the configurations async_log_exception logged an error for
NoReports == [errors |-> <<>>, notification |-> <<>>, log |-> <<>>]

\* name.replace('_', '-')
ReplaceUnderscores(name) ==
    [i \in 1..Len(name) |-> IF name[i] = "_" THEN "-" ELSE name[i]]

\* HA_COMPONENT_URL.format(name.replace('_', '-'), name)
HA_COMPONENT_URL(name) ==
    <<"[">> \o ReplaceUnderscores(name)
        \o <<"](https://open-peer-power.io/components/">> \o name \o <<"/)">>

ErrorIndex(errors, component) ==
    CHOOSE i \in 1..Len(errors) : errors[i][1] = component

\* Mutant: the flag of the last report replaces the stored one
SetError_Overwrite(errors, component, display_link) ==
    IF \E i \in 1..Len(errors) : errors[i][1] = component
    THEN [errors EXCEPT ![ErrorIndex(errors, component)] = <<component, display_link>>]
    ELSE Append(errors, <<component, display_link>>)

\* errors[component] = errors.get(component) or display_link
SetError(errors, component, display_link) ==
    IF \E i \in 1..Len(errors) : errors[i][1] = component
    THEN [errors EXCEPT ![ErrorIndex(errors, component)] =
              <<component, errors[ErrorIndex(errors, component)][2] \/ display_link>>]
    ELSE Append(errors, <<component, display_link>>)

\* the message parts, one per entry of errors
Render(errors) ==
    [i \in 1..Len(errors) |->
        IF errors[i][2] THEN HA_COMPONENT_URL(errors[i][1]) ELSE errors[i][1]]

async_notify_setup_error(rep, component, display_link) ==
    LET errors == SetError(rep.errors, component, display_link) IN
    [rep EXCEPT !.errors = errors, !.notification = Render(errors)]

\* Mutant: the error is logged and no notification is made
async_log_exception_LogOnly(rep, domain, conf) ==
    [rep EXCEPT !.log = Append(@, [domain |-> domain, config |-> conf])]

\* async_log_exception(ex, domain, config, opp): the notification with the
\* link, then the log line for the offending configuration
async_log_exception(rep, domain, conf) ==
    [async_notify_setup_error(rep, domain, TRUE) EXCEPT
        !.log = Append(@, [domain |-> domain, config |-> conf])]

-----------------------------------------------------------------------------
(* The schemas components and platforms declare *)

CONF_PLATFORM == <<"platform">>
CONF_SCAN_INTERVAL == <<"scan_interval">>
CONF_HOST == <<"host">>
CONF_ALIAS == <<"alias">>
CONF_SERVER_PORT == <<"server_port">>

\* A schema applied to a value: the validated value, or vol.Invalid
Valid(v) == [ok |-> TRUE, value |-> v]
Invalid == [ok |-> FALSE, value |-> None]

\* cv.time_period on a scalar: the text of the period
time_period(v) == Str("0:00:" \o v.s)

\* scan_interval, when present, is turned into a period
WithPeriod(conf) ==
    IF HasKey(conf, CONF_SCAN_INTERVAL)
    THEN Put(conf, CONF_SCAN_INTERVAL, time_period(Get(conf, CONF_SCAN_INTERVAL)))
    ELSE conf

\* cv.PLATFORM_SCHEMA_BASE: a mapping with a platform name, an optional
\* scan_interval, any other key
PLATFORM_SCHEMA_BASE(p_config) ==
    IF /\ IsDict(p_config)
       /\ Get(p_config, CONF_PLATFORM).t = "str"
       /\ HasKey(p_config, CONF_SCAN_INTERVAL) => Get(p_config, CONF_SCAN_INTERVAL).t = "str"
    THEN Valid(WithPeriod(p_config))
    ELSE Invalid

\* automation's PLATFORM_SCHEMA: a mapping with an alias; it names no platform
AUTOMATION_PLATFORM_SCHEMA(p_config) ==
    IF IsDict(p_config) /\ Get(p_config, CONF_ALIAS).t = "str"
    THEN Valid(p_config)
    ELSE Invalid

\* The PLATFORM_SCHEMA of the platform hue: platform, scan_interval and
\* host (with a default), no other key
HUE_PLATFORM_SCHEMA(p_config) ==
    IF /\ IsDict(p_config)
       /\ Keys(p_config) \subseteq {CONF_PLATFORM, CONF_SCAN_INTERVAL, CONF_HOST}
       /\ Get(p_config, CONF_PLATFORM).t = "str"
       /\ \A k \in Keys(p_config) : Get(p_config, k).t = "str"
    THEN Valid(IF HasKey(p_config, CONF_HOST) THEN WithPeriod(p_config)
               ELSE Put(WithPeriod(p_config), CONF_HOST, Str("127.0.0.1")))
    ELSE Invalid

\* http's CONFIG_SCHEMA on the whole tree: the http entry is a mapping with
\* at most server_port (default 8123); the other keys of the tree pass
HTTP_CONFIG_SCHEMA(cfg) ==
    LET entry == Get(cfg, <<"http">>) IN
    IF ~HasKey(cfg, <<"http">>) THEN Valid(cfg)
    ELSE IF /\ IsDict(entry)
            /\ Keys(entry) \subseteq {CONF_SERVER_PORT}
            /\ \A k \in Keys(entry) : Get(entry, k).t = "str"
    THEN Valid(Put(cfg, <<"http">>,
                   IF HasKey(entry, CONF_SERVER_PORT) THEN entry
                   ELSE Put(entry, CONF_SERVER_PORT, Str("8123"))))
    ELSE Invalid

\* What the component of a domain declares: CONFIG_SCHEMA and the platform
\* schema getattr(component, 'PLATFORM_SCHEMA_BASE', PLATFORM_SCHEMA) finds
HasConfigSchema(domain) == domain \in {"http"}
HasPlatformSchema(domain) == domain \in {"light", "sensor", "automation"}
CONFIG_SCHEMA(domain, cfg) == HTTP_CONFIG_SCHEMA(cfg)
component_platform_schema(domain, p_config) ==
    IF domain = "automation" THEN AUTOMATION_PLATFORM_SCHEMA(p_config)
    ELSE PLATFORM_SCHEMA_BASE(p_config)

\* async_get_integration(p_name) and get_platform(domain): "hue" declares
\* PLATFORM_SCHEMA, "demo" does not, "broken" raises ImportError, any other
\* name raises IntegrationNotFound
PlatformResolved(p_name) == p_name \in {"hue", "demo"}
PlatformHasSchema(p_name) == p_name = "hue"
PLATFORM_SCHEMA(p_name, p_config) == HUE_PLATFORM_SCHEMA(p_config)

-----------------------------------------------------------------------------
(* helpers.extract_domain_configs and helpers.config_per_platform *)

\* re.compile(r'^{}(| .+)$'.format(domain)) on a key
MatchesDomain(key, domain) ==
    /\ key # <<>> /\ key[1] = domain
    /\ Len(key) = 1 \/ (Len(key) >= 3 /\ key[2] = " ")

\* the keys of the tree for the domain, in the order of the tree
extract_domain_configs(cfg, domain) ==
    SelectSeq([i \in 1..Len(cfg.d) |-> cfg.d[i][1]], LAMBDA key : MatchesDomain(key, domain))

\* item.get(CONF_PLATFORM), None when item is no mapping
PlatformOf(item) == IF IsDict(item) THEN Get(item, CONF_PLATFORM) ELSE None

RECURSIVE PerPlatform(_, _, _)
\* the <<platform, item>> pairs of the keys from i on
PerPlatform(cfg, keys, i) ==
    IF i > Len(keys) THEN <<>>
    ELSE LET platform_config == Get(cfg, keys[i])
             items == IF Falsy(platform_config) THEN <<>>
                      ELSE IF IsList(platform_config) THEN platform_config.l
                      ELSE <<platform_config>>
         IN [n \in 1..Len(items) |-> <<PlatformOf(items[n]), items[n]>>]
            \o PerPlatform(cfg, keys, i + 1)

config_per_platform(cfg, domain) ==
    PerPlatform(cfg, extract_domain_configs(cfg, domain), 1)

-----------------------------------------------------------------------------
(* async_process_component_config *)

\* Mutant: an entry the domain-level schema rejects ends the loop's work,
\* the entries validated before it are lost
ValidatePlatform_DropAll(acc, domain, p_name, p_config) ==
    LET base == component_platform_schema(domain, p_config) IN
    IF ~base.ok
    THEN [platforms |-> <<>>, rep |-> async_log_exception(acc.rep, <<domain>>, p_config)]
    ELSE IF IsNone(p_name) \/ ~PlatformHasSchema(p_name.s)
    THEN [acc EXCEPT !.platforms = Append(@, base.value)]
    ELSE [acc EXCEPT !.platforms = Append(@, PLATFORM_SCHEMA(p_name.s, p_config).value)]

\* One turn of the loop over the platform entries; acc is
\* [platforms, rep] before the entry, the result is acc after it
ValidatePlatform(acc, domain, p_name, p_config) ==
    LET base == component_platform_schema(domain, p_config) IN
    IF ~base.ok
    THEN [acc EXCEPT !.rep = async_log_exception(@, <<domain>>, p_config)]
    ELSE IF IsNone(p_name)
    THEN [acc EXCEPT !.platforms = Append(@, base.value)]
    ELSE IF ~PlatformResolved(p_name.s)
    THEN acc
    ELSE IF PlatformHasSchema(p_name.s)
    THEN LET own == PLATFORM_SCHEMA(p_name.s, p_config) IN
         IF ~own.ok
         THEN [acc EXCEPT !.rep =
                   async_log_exception(@, <<domain, ".", p_name.s>>, p_config)]
         ELSE [acc EXCEPT !.platforms = Append(@, own.value)]
    ELSE [acc EXCEPT !.platforms = Append(@, base.value)]

RECURSIVE ValidatePlatforms(_, _, _, _)
ValidatePlatforms(acc, domain, items, i) ==
    IF i > Len(items) THEN acc
    ELSE ValidatePlatforms(ValidatePlatform(acc, domain, items[i][1], items[i][2]),
                           domain, items, i + 1)

\* Mutant: the raw keys of the domain are not filtered out
Reassemble_KeepRaw(cfg, domain, platforms) == Put(cfg, <<domain>>, List(platforms))

\* config = {key: value for key, value in config.items()
\*           if key not in filter_keys}; config[domain] = platforms
Reassemble(cfg, domain, platforms) ==
    Put(Dict(SelectSeq(cfg.d, LAMBDA kv : ~MatchesDomain(kv[1], domain))),
        <<domain>>, List(platforms))

\* Mutant: the keys of the domain are removed from the dict that was passed
\* in, and the validated list is written to it
CallerTree_InPlace(cfg, domain, platforms) == Reassemble(cfg, domain, platforms)

\* The dict the caller passed in, after the reassembly: the comprehension
\* makes a new dict, the local name config is bound to it and
\* config[domain] = platforms writes to the new one
CallerTree(cfg, domain, platforms) == cfg

\* The call: [result, rep, given, is_input]; result is None when the function
\* returns None, given is the dict that was passed in as it is after the
\* call, is_input tells that the result is that very dict
async_process_component_config(rep, cfg, domain) ==
    IF HasConfigSchema(domain)
    THEN LET r == CONFIG_SCHEMA(domain, cfg) IN
         IF r.ok THEN [result |-> r.value, rep |-> rep, given |-> cfg, is_input |-> FALSE]
         ELSE [result |-> None, rep |-> async_log_exception(rep, <<domain>>, cfg),
               given |-> cfg, is_input |-> FALSE]
    ELSE IF ~HasPlatformSchema(domain)
    THEN [result |-> cfg, rep |-> rep, given |-> cfg, is_input |-> TRUE]
    ELSE LET acc == ValidatePlatforms([platforms |-> <<>>, rep |-> rep], domain,
                                      config_per_platform(cfg, domain), 1)
         IN [result |-> Reassemble(cfg, domain, acc.platforms), rep |-> acc.rep,
             given |-> CallerTree(cfg, domain, acc.platforms), is_input |-> FALSE]

-----------------------------------------------------------------------------
(* Inputs of the package merger *)

\* The number of distinct scalar values configurations are built from
NumScalars == 2

ScalarText == <<"1234", "5678", "9012", "3456">>
Scalars == {Str(ScalarText[i]) : i \in 1..NumScalars}
S1 == Str(ScalarText[1])
S2 == Str(ScalarText[2])

HTTP == <<"http">>
LIGHT == <<"light">>
LIGHT_2 == <<"light", " ", "2">>
ZONE == <<"zone">>
ALERT == <<"alert">>
SCRIPT == <<"script">>
SUN == <<"sun">>
BROKEN == <<"broken">>
GHOST == <<"ghost">>

PORT == <<"port">>
OPT == <<"opt">>
X == <<"x">>
Y == <<"y">>
PLATFORM == <<"platform">>

PKG1 == <<"p", "k", "g", "1">>
PKG2 == <<"p", "k", "g", "2">>
BAD_NAME == <<"P", "k", "g">>
BAD_NAME_2 == <<"p", "-", "2">>

\* Ordered dicts with at most two entries, keys from ks and values from vs
Dicts(ks, vs) ==
    {Dict(<<>>)}
    \cup {Dict(<< <<k, v>> >>) : k \in ks, v \in vs}
    \cup {Dict(<< <<kv[1], v1>>, <<kv[2], v2>> >>) :
            kv \in {p \in ks \X ks : p[1] # p[2]}, v1 \in vs, v2 \in vs}

\* Fragments for a dict-merged domain: scalar, null, nested-dict and list
\* values under the keys port and opt, plus the fragments that are no dict
NestedDicts == {Dict(<<>>)} \cup {Dict(<< <<X, s>> >>) : s \in Scalars}
TopValues == Scalars \cup {None} \cup NestedDicts \cup {List(<<>>), List(<<S1>>)}
DeepFragments == Dicts({PORT, OPT}, TopValues) \cup {None, List(<<S1>>)}
\* those with at most one key
SmallFragments == {f \in DeepFragments : Len(f.d) <= 1}

\* Two packages with a fragment each for http, of three keys at most together
DeepPackages ==
    {Dict(<< <<PKG1, Dict(<< <<HTTP, f1>> >>)>>, <<PKG2, Dict(<< <<HTTP, f2>> >>)>> >>) :
        f1 \in DeepFragments, f2 \in SmallFragments}
    \cup
    {Dict(<< <<PKG1, Dict(<< <<HTTP, f1>> >>)>>, <<PKG2, Dict(<< <<HTTP, f2>> >>)>> >>) :
        f1 \in SmallFragments, f2 \in DeepFragments}

DeepTrees ==
    {Dict(<<>>)}
    \cup {Dict(<< <<HTTP, v>> >>) :
            v \in {Dict(<< <<OPT, S1>> >>), Dict(<< <<PORT, None>> >>),
                   Dict(<< <<PORT, Dict(<< <<Y, S1>> >>)>> >>), List(<<S1>>)}}

\* Package entries over several domains
Entry1 == Dict(<< <<PLATFORM, S1>> >>)
Entry2 == Dict(<< <<PLATFORM, S2>> >>)

WideEntries ==
    ({CONF_CORE, GHOST, BROKEN} \X {Entry1})
    \cup ({LIGHT} \X {None, Dict(<<>>), List(<<>>), Entry1, List(<<Entry2, Entry1>>)})
    \cup ({LIGHT_2} \X {Entry1, List(<<Entry2>>)})
    \cup ({ZONE} \X {Dict(<<>>), Entry1, List(<<Entry2>>)})
    \cup ({HTTP} \X {None, Entry1, List(<<Entry2>>)})
    \cup ({SCRIPT} \X {Entry1, List(<<Entry2>>)})
    \cup ({ALERT, SUN} \X {Entry1})

WidePackages ==
    {Dict(<< <<PKG1, Dict(<<e1>>)>>, <<PKG2, Dict(<<e3>>)>> >>) :
        e1 \in WideEntries, e3 \in WideEntries}
    \cup {Dict(<< <<PKG1, Dict(<<ee[1], ee[2]>>)>>, <<PKG2, Dict(<<e3>>)>> >>) :
        ee \in {p \in WideEntries \X WideEntries : p[1][1] # p[2][1]}, e3 \in WideEntries}

WideTrees ==
    {Dict(<< <<LIGHT, Entry1>> >>),
     Dict(<< <<LIGHT, List(<<Entry2>>)>>, <<HTTP, Dict(<< <<PORT, S1>> >>)>> >>),
     Dict(<< <<ZONE, Dict(<<>>)>>, <<SCRIPT, List(<<Entry1>>)>> >>),
     Dict(<< <<HTTP, List(<<Entry2>>)>> >>)}

\* Packages mappings some of which PACKAGES_CONFIG_SCHEMA rejects
SchemaPackages ==
    {Dict(<< <<n1, c1>>, <<n2, c2>> >>) :
        n1 \in {PKG1, BAD_NAME}, n2 \in {PKG2, BAD_NAME_2},
        c1 \in {Dict(<< <<LIGHT, Entry1>> >>), Dict(<< <<HTTP, S1>> >>), None},
        c2 \in {Dict(<< <<HTTP, Dict(<< <<OPT, S2>> >>)>> >>), Dict(<< <<LIGHT, S2>> >>),
                List(<<Entry1>>)}}
    \cup {None, List(<<Entry1>>)}

-----------------------------------------------------------------------------
(* The package merger as a state machine: one call of                      *)
(* merge_packages_config on a loaded tree                                  *)

InitMerge ==
    /\ config \in DeepTrees \cup WideTrees
    /\ config0 = config
    /\ packages = None
    /\ pkg_errors = <<>>
    /\ outcome = "init"
    /\ processed = <<>>
    /\ reporter = NoReports
    /\ InitCore
    /\ InitIdle

MergeCall(pkgs) ==
    /\ \E r \in {merge_packages_config(config, pkgs)} :
        /\ config' = r.config
        /\ pkg_errors' = r.errors
        /\ outcome' = r.outcome
    /\ config0' = config
    /\ packages' = pkgs
    /\ UNCHANGED <<validateVars, coreVars, notifyVars, authVars>>

MergeDeep ==
    /\ outcome = "init"
    /\ config \in DeepTrees
    /\ \E pkgs \in DeepPackages : MergeCall(pkgs)

MergeWide ==
    /\ outcome = "init"
    /\ config \in WideTrees
    /\ \E pkgs \in WidePackages : MergeCall(pkgs)

MergeSchema ==
    /\ outcome = "init"
    /\ config \in WideTrees
    /\ \E pkgs \in SchemaPackages : MergeCall(pkgs)


NextMerge == MergeDeep \/ MergeWide \/ MergeSchema

SpecMerge == InitMerge /\ [][NextMerge]_vars

-----------------------------------------------------------------------------
(* Vocabulary of the statements about the package merger *)

Called == outcome # "init"
Returned == outcome = "returned"

\* The fragment package number i holds for the component key k (None when
\* it has none) and whether it has one
HasFragment(i, k) ==
    IsDict(packages) /\ i <= Len(packages.d) /\ HasKey(packages.d[i][2], k)
Fragment(i, k) == Get(packages.d[i][2], k)
PackName(i) == packages.d[i][1]

\* The errors logged for a package and a component key
ErrorsOf(pack_name, comp_name) ==
    {n \in 1..Len(pkg_errors) :
        pkg_errors[n].package = pack_name /\ pkg_errors[n].component = comp_name}

\* The runs on the http trees: two packages, each with a fragment for http
DeepRun == Called /\ config0 \in DeepTrees
F1 == Fragment(1, HTTP)
F2 == Fragment(2, HTTP)
\* The http entry before the call ({} when the tree has none) and after it
Dest0 == GetDefault(config0, HTTP, Dict(<<>>))
Dest == Get(config, HTTP)

\* Leaves are addressed by a path of one or two keys
Paths == {<<PORT>>, <<OPT>>, <<PORT, X>>, <<OPT, X>>}
LastKey(path) == path[Len(path)]
At(v, path) == IF Len(path) = 1 THEN Get(v, path[1]) ELSE Get(Get(v, path[1]), path[2])
\* the value holds something at the path, or a non-dict on the way to it
Holds(v, path) ==
    /\ HasKey(v, path[1])
    /\ Len(path) = 2 => (~IsDict(Get(v, path[1])) \/ HasKey(Get(v, path[1]), path[2]))
\* the fragment sets a scalar (non-null) leaf at the path
SetsScalar(f, path) ==
    /\ IsDict(f)
    /\ Len(path) = 2 => IsDict(Get(f, path[1]))
    /\ At(f, path).t = "str"

DuplicateErrors(pack_name, comp_name, key) ==
    {n \in ErrorsOf(pack_name, comp_name) :
        pkg_errors[n].message = DUPLICATE_KEY /\ pkg_errors[n].key = key}

\* C1: two packages that set the same scalar leaf of a dict-merged domain,
\* merged into a tree that does not hold it: one duplicate-key error, for the
\* second package, and the value of the first package stays.
C1_FirstValueKept ==
    DeepRun =>
        \A path \in Paths :
            (IsDict(Dest0) /\ ~Holds(Dest0, path)
                /\ SetsScalar(F1, path) /\ SetsScalar(F2, path))
            => /\ Returned
               /\ At(Dest, path) = At(F1, path)
               /\ Cardinality(DuplicateErrors(PKG2, HTTP, LastKey(path))) = 1
               /\ DuplicateErrors(PKG1, HTTP, LastKey(path)) = {}



\* The keys the tree and the packages name
CompKeys ==
    Keys(config0) \cup
    UNION {Keys(packages.d[i][2]) : i \in 1..Len(packages.d)}

\* Domains with a platform-style schema or a list-classified config schema
ListStyleDomains == {"light", "zone", "alert"}

RECURSIVE Appended(_, _)
\* ensure_list of the non-falsy fragments for k of the packages from i on
Appended(k, i) ==
    IF i > Len(packages.d) THEN <<>>
    ELSE (IF HasFragment(i, k) /\ ~Falsy(Fragment(i, k))
          THEN ensure_list(Fragment(i, k)).l ELSE <<>>) \o Appended(k, i + 1)

\* C2: the entry of a list-style domain after the merge is ensure_list of
\* the original entry followed by ensure_list of each package's fragment in
\* package order; falsy fragments leave the tree as it is (no key is made).
C2_ListAppend ==
    Returned =>
        \A k \in {c \in CompKeys : FirstToken(c) \in ListStyleDomains} :
            IF \A i \in 1..Len(packages.d) : ~HasFragment(i, k) \/ Falsy(Fragment(i, k))
            THEN /\ HasKey(config, k) = HasKey(config0, k)
                 /\ Get(config, k) = Get(config0, k)
            ELSE /\ HasKey(config, k)
                 /\ Get(config, k) = List(ensure_list(Get(config0, k)).l \o Appended(k, 1))

C2_Witness ==
    /\ Returned
    /\ Get(config0, LIGHT) = Entry1
    /\ Fragment(1, LIGHT) = List(<<Entry2, Entry1>>)
    /\ Fragment(2, LIGHT) = Entry1
    /\ Get(config, LIGHT) = List(<<Entry1, Entry2, Entry1, Entry1>>)


-----------------------------------------------------------------------------
(* Unions of dict values, for the statements about disjoint fragments *)

RECURSIVE SameValue(_, _)
\* equality of values up to the order of dict keys
SameValue(a, b) ==
    /\ a.t = b.t
    /\ a.s = b.s
    /\ Len(a.l) = Len(b.l)
    /\ \A i \in 1..Len(a.l) : SameValue(a.l[i], b.l[i])
    /\ Keys(a) = Keys(b)
    /\ \A k \in Keys(a) : SameValue(Get(a, k), Get(b, k))

RECURSIVE Absent(_, _)
\* every key of the fragment is absent from the destination, or names a
\* mapping on both sides whose keys are absent in turn
Absent(dest, frag) ==
    \A k \in Keys(frag) :
        \/ ~HasKey(dest, k)
        \/ /\ IsDict(Get(frag, k)) /\ IsDict(Get(dest, k))
           /\ Absent(Get(dest, k), Get(frag, k))

RECURSIVE Union(_, _)
RECURSIVE UnionFrom(_, _, _)
UnionFrom(dest, items, i) ==
    IF i > Len(items) THEN dest
    ELSE LET k == items[i][1]
             v == items[i][2]
         IN UnionFrom(IF HasKey(dest, k) /\ IsDict(v) /\ IsDict(Get(dest, k))
                      THEN Put(dest, k, Union(Get(dest, k), v))
                      ELSE Put(dest, k, v),
                      items, i + 1)
\* the keys of both, mappings under a common key united in turn
Union(dest, frag) == UnionFrom(dest, frag.d, 1)

EmptyContainer(v) == (IsDict(v) /\ v.d = <<>>) \/ (IsList(v) /\ v.l = <<>>)

RECURSIVE Strip(_)
RECURSIVE StripFrom(_, _)
StripFrom(items, i) ==
    IF i > Len(items) THEN <<>>
    ELSE LET k == items[i][1]
             v == items[i][2]
         IN (IF EmptyContainer(v) THEN <<>>
             ELSE IF IsDict(v) THEN << <<k, Strip(v)>> >>
             ELSE << <<k, v>> >>) \o StripFrom(items, i + 1)
\* the fragment without the keys whose value is an empty mapping or list
Strip(frag) == Dict(StripFrom(frag.d, 1))

\* a package fragment as the dict merge takes it: None is {}
AsDict(f) == IF IsNone(f) THEN Dict(<<>>) ELSE f

\* The same call with the two packages in the other order
SwappedRun ==
    merge_packages_config(config0, Dict(<<packages.d[2], packages.d[1]>>))

\* Both packages hold mappings for http whose keys are absent from the
\* destination and from each other
DisjointRun ==
    /\ DeepRun /\ IsDict(Dest0)
    /\ IsDict(AsDict(F1)) /\ IsDict(AsDict(F2))
    /\ Absent(Dest0, AsDict(F1)) /\ Absent(Dest0, AsDict(F2))
    /\ Absent(AsDict(F1), AsDict(F2))

\* C3 as claimed: disjoint fragments merge without error into the union of
\* destination and fragments, whichever package is merged first.
C3_DisjointUnion ==
    DisjointRun =>
        /\ Returned /\ pkg_errors = <<>>
        /\ SameValue(Dest, Union(Union(Dest0, AsDict(F1)), AsDict(F2)))
        /\ SameValue(Dest, Get(SwappedRun.config, HTTP))

\* C3 amended: the union is taken with the fragments stripped of the keys
\* that hold an empty mapping or an empty list, which the merge skips.
C3_DisjointUnionOfNonEmpty ==
    DisjointRun =>
        /\ Returned /\ pkg_errors = <<>>
        /\ SameValue(Dest, Union(Union(Dest0, Strip(AsDict(F1))), Strip(AsDict(F2))))
        /\ SameValue(Dest, Get(SwappedRun.config, HTTP))
        /\ SwappedRun.outcome = "returned" /\ SwappedRun.errors = <<>>

\* a nested mapping of the destination gains a key, and both packages add
C3_Witness ==
    /\ DisjointRun
    /\ Dest0 = Dict(<< <<PORT, Dict(<< <<Y, S1>> >>)>> >>)
    /\ F1 = Dict(<< <<PORT, Dict(<< <<X, S2>> >>)>> >>)
    /\ F2 = Dict(<< <<OPT, S1>> >>)
    /\ Dest = Dict(<< <<PORT, Dict(<< <<Y, S1>>, <<X, S2>> >>)>>, <<OPT, S1>> >>)


-----------------------------------------------------------------------------
(* Entries whose integration cannot be resolved *)

\* Domains the loader does not find, and domains whose component fails to
\* import
MissingDomains == {"ghost"}
UnimportableDomains == {"broken"}
Unresolved(k) ==
    k # CONF_CORE /\ FirstToken(k) \in MissingDomains \cup UnimportableDomains

RECURSIVE SelectPairs(_, _)
\* the entries of a package but those that cannot be resolved
SelectPairs(items, i) ==
    IF i > Len(items) THEN <<>>
    ELSE (IF Unresolved(items[i][1]) THEN <<>> ELSE <<items[i]>>)
         \o SelectPairs(items, i + 1)

\* the packages without their unresolvable entries
ResolvablePackages ==
    Dict([i \in 1..Len(packages.d) |->
            <<packages.d[i][1], Dict(SelectPairs(packages.d[i][2].d, 1))>>])

RECURSIVE ErrorsButUnresolved(_)
ErrorsButUnresolved(n) ==
    IF n > Len(pkg_errors) THEN <<>>
    ELSE (IF Unresolved(pkg_errors[n].component) THEN <<>> ELSE <<pkg_errors[n]>>)
         \o ErrorsButUnresolved(n + 1)

\* C4: an entry whose integration is not found or not importable logs one
\* error and makes no key; the tree and the other errors are those of the
\* same call without these entries.
C4_UnresolvedSkipped ==
    Returned =>
        /\ \A i \in 1..Len(packages.d) :
             \A k \in {c \in Keys(packages.d[i][2]) : Unresolved(c)} :
                /\ Cardinality(ErrorsOf(PackName(i), k)) = 1
                /\ \A n \in ErrorsOf(PackName(i), k) :
                     pkg_errors[n].message =
                        IF FirstToken(k) \in MissingDomains
                        THEN DOES_NOT_EXIST ELSE UNABLE_TO_IMPORT
                /\ ~HasKey(config0, k) => ~HasKey(config, k)
        /\ LET r == merge_packages_config(config0, ResolvablePackages) IN
             /\ r.outcome = "returned"
             /\ config = r.config
             /\ ErrorsButUnresolved(1) = r.errors

\* an unresolvable entry first, then an entry of the same package and one of
\* the next package, both merged
C4_Witness ==
    /\ Returned
    /\ packages.d[1][2].d[1][1] = BROKEN
    /\ Len(packages.d[1][2].d) = 2
    /\ HasFragment(1, ZONE) /\ Fragment(1, ZONE) = Entry1
    /\ HasFragment(2, LIGHT) /\ Fragment(2, LIGHT) = Entry1
    /\ Get(config0, LIGHT) = List(<<Entry2>>)
    /\ Get(config, ZONE) = List(<<Entry1>>)
    /\ Get(config, LIGHT) = List(<<Entry2, Entry1>>)
    /\ Len(pkg_errors) = 1

-----------------------------------------------------------------------------
(* A duplicate key and the other keys of the fragment *)

\* The first package alone, its http fragment without the key k
WithoutKey(k) ==
    Dict(<< <<PKG1, Dict(<< <<HTTP,
              Dict(SelectSeq(F1.d, LAMBDA kv : kv[1] # k))>> >>)>> >>)

\* C5: a duplicate-key conflict on one scalar key of a fragment leaves the
\* other keys of the fragment merged: the entry is the one the fragment
\* without the conflicting key gives.
C5_ConflictIsolated ==
    (DeepRun /\ Returned /\ IsDict(Dest0) /\ IsDict(F1) /\ Falsy(F2)) =>
        \A k \in Keys(F1) :
            (Get(F1, k).t \in {"str", "null"}
                /\ DuplicateErrors(PKG1, HTTP, k) # {})
            => SameValue(Dest, Get(merge_packages_config(config0, WithoutKey(k)).config, HTTP))

-----------------------------------------------------------------------------
(* The packages schema *)

\* The packages mapping breaks the schema: it is no mapping, a name is no
\* slug, a package is no mapping or a fragment is a scalar
BreaksSchema ==
    \/ ~IsDict(packages)
    \/ \E i \in 1..Len(packages.d) :
         \/ PackName(i) \in {BAD_NAME, BAD_NAME_2}
         \/ ~IsDict(packages.d[i][2])
         \/ \E j \in 1..Len(packages.d[i][2].d) : packages.d[i][2].d[j][2].t = "str"

\* C6: the packages mapping is validated before anything is merged: when it
\* breaks the schema the call raises and the tree is as on entry.
C6_InvalidPackagesLeaveTree ==
    Called =>
        /\ (outcome = "invalid") = BreaksSchema
        /\ outcome = "invalid" => (config = config0 /\ pkg_errors = <<>>)

\* the first package is valid and would merge, the name of the second is no slug
C6_Witness ==
    /\ outcome = "invalid"
    /\ IsDict(packages) /\ Len(packages.d) = 2
    /\ PackName(1) = PKG1 /\ Fragment(1, LIGHT) = Entry1
    /\ PackName(2) = BAD_NAME_2 /\ IsDict(Fragment(2, HTTP))
    /\ config = config0


-----------------------------------------------------------------------------
(* The component config validator as a state machine: the components of   *)
(* a loaded tree are set up one after the other                           *)

\* The number of platform entries under a domain key
MaxEntries == 3
\* The number of components set up in a run
MaxSetups == 2

\* Platform entries: valid and normalised, valid with a platform schema,
\* rejected by the platform schema, rejected by the domain-level schema,
\* and naming a platform that is not found or not importable
DEMO_ENTRY == Dict(<< <<CONF_PLATFORM, Str("demo")>>, <<CONF_SCAN_INTERVAL, Str("30")>> >>)
HUE_ENTRY == Dict(<< <<CONF_PLATFORM, Str("hue")>> >>)
HUE_EXTRA_KEY == Dict(<< <<CONF_PLATFORM, Str("hue")>>, <<OPT, S1>> >>)
NO_PLATFORM == Dict(<< <<OPT, S1>> >>)
GHOST_PLATFORM == Dict(<< <<CONF_PLATFORM, Str("ghost")>> >>)
BROKEN_PLATFORM == Dict(<< <<CONF_PLATFORM, Str("broken")>> >>)
AUTOMATION_ENTRY == Dict(<< <<CONF_ALIAS, S1>> >>)

EntryKinds ==
    {DEMO_ENTRY, HUE_ENTRY, HUE_EXTRA_KEY, NO_PLATFORM, GHOST_PLATFORM, BROKEN_PLATFORM}

EntryLists == UNION {[1..n -> EntryKinds] : n \in 0..MaxEntries}

LIGHTS == <<"lights">>
LIGHT_ == <<"light", " ">>
SENSOR == <<"sensor">>
AUTOMATION == <<"automation">>

ValidateTrees ==
    {Dict(<< <<LIGHT, List(entries)>>, <<HTTP, h>> >>) :
        entries \in EntryLists,
        h \in {Dict(<<>>), Dict(<< <<OPT, S1>> >>)}}
    \cup
    {Dict(<< <<LIGHT, DEMO_ENTRY>>,
             <<HTTP, S1>>,
             <<LIGHT_2, List(<<NO_PLATFORM, HUE_ENTRY>>)>>,
             <<LIGHTS, List(<<GHOST_PLATFORM>>)>>,
             <<AUTOMATION, List(<<AUTOMATION_ENTRY, NO_PLATFORM, AUTOMATION_ENTRY>>)>> >>),
     Dict(<< <<LIGHT, Dict(<<>>)>>,
             <<LIGHT_, List(<<HUE_ENTRY>>)>>,
             <<SUN, Dict(<<>>)>>,
             <<HTTP, Dict(<< <<CONF_SERVER_PORT, S2>> >>)>>,
             <<AUTOMATION, AUTOMATION_ENTRY>> >>),
     Dict(<< <<LIGHT_2, List(<<S1, HUE_ENTRY, None>>)>>,
             <<SENSOR, List(<<DEMO_ENTRY>>)>> >>)}

SetupDomains == {"light", "http", "sensor", "automation", "sun"}

InitValidate ==
    /\ config \in ValidateTrees
    /\ config0 = config
    /\ packages = None
    /\ pkg_errors = <<>>
    /\ outcome = "init"
    /\ processed = <<>>
    /\ reporter = NoReports
    /\ InitCore
    /\ InitIdle

\* The set-up of one component: its configuration is processed and the
\* result kept
SetupComponent(domain) ==
    /\ Len(processed) < MaxSetups
    /\ \A i \in 1..Len(processed) : processed[i].domain # domain
    /\ \E r \in {async_process_component_config(reporter, config, domain)} :
        /\ processed' = Append(processed, [domain |-> domain, result |-> r.result,
                                            is_input |-> r.is_input])
        /\ reporter' = r.rep
        /\ config' = r.given
    /\ UNCHANGED <<mergeVars, coreVars, notifyVars, authVars>>

NextValidate == \E domain \in SetupDomains : SetupComponent(domain)

SpecValidate == InitValidate /\ [][NextValidate]_vars


\* setup.setup_component as the tests use it: the set-up of a component
\* fails when its processed configuration is None
setup_component(entry) == ~IsNone(entry.result)

-----------------------------------------------------------------------------
(* Vocabulary of the statements about the validator *)

PlatformStyle == {"light", "sensor", "automation"}

\* The keys of the tree that belong to a domain: the domain and 'domain 2'
DomainKeys(domain) == {<<domain>>, <<domain, " ", "2">>}

RECURSIVE RawEntriesFrom(_, _)
\* the platform entries configured for the domain, in the order of the tree
RawEntriesFrom(domain, i) ==
    IF i > Len(config.d) THEN <<>>
    ELSE LET v == config.d[i][2] IN
         (IF config.d[i][1] \notin DomainKeys(domain) \/ Falsy(v) THEN <<>>
          ELSE IF IsList(v) THEN v.l ELSE <<v>>) \o RawEntriesFrom(domain, i + 1)
RawEntries(domain) == RawEntriesFrom(domain, 1)

\* The entries a schema rejects: the domain-level schema (no platform name,
\* no mapping, no alias for an automation) or the schema of the platform hue
Rejected(domain, e) ==
    IF domain = "automation" THEN e # AUTOMATION_ENTRY
    ELSE e \in {HUE_EXTRA_KEY, NO_PLATFORM, S1, None}

\* The entries whose named platform cannot be resolved
UnresolvedPlatform(domain, e) == e \in {GHOST_PLATFORM, BROKEN_PLATFORM}

\* What validation makes of the entries it accepts
Validated(e) ==
    IF e = DEMO_ENTRY
    THEN Dict(<< <<CONF_PLATFORM, Str("demo")>>, <<CONF_SCAN_INTERVAL, Str("0:00:30")>> >>)
    ELSE IF e = HUE_ENTRY
    THEN Dict(<< <<CONF_PLATFORM, Str("hue")>>, <<CONF_HOST, Str("127.0.0.1")>> >>)
    ELSE e

MapValidated(entries) == [n \in 1..Len(entries) |-> Validated(entries[n])]

\* The configurations an error was logged for while the domain was
\* processed (for the domain or for one of its platforms)
LoggedFor(domain) ==
    LET hits == SelectSeq(reporter.log, LAMBDA e : e.domain[1] = domain)
    IN [n \in 1..Len(hits) |-> hits[n].config]

\* the platform-style domains processed so far
PlatformRuns == {i \in 1..Len(processed) : processed[i].domain \in PlatformStyle}

\* The http entry of the tree breaks http's CONFIG_SCHEMA
HttpRejected == HasKey(config, HTTP) /\ Get(config, HTTP) \in {Dict(<< <<OPT, S1>> >>), S1}

\* C7: a whole-of-domain schema that rejects the tree makes the call return
\* None and report the domain with its documentation link; the set-up of
\* the component fails and the other domains get what they get on their own.
C7_SchemaViolationIsolated ==
    \A i \in 1..Len(processed) :
        (processed[i].domain = "http" /\ HttpRejected) =>
            /\ IsNone(processed[i].result)
            /\ ~setup_component(processed[i])
            /\ \E n \in 1..Len(reporter.errors) : reporter.errors[n] = <<HTTP, TRUE>>
            /\ \E n \in 1..Len(reporter.notification) :
                 reporter.notification[n] = HA_COMPONENT_URL(HTTP)
            /\ LoggedFor("http") = <<config>>
            /\ \A j \in 1..Len(processed) :
                 j # i => processed[j].result =
                    async_process_component_config(NoReports, config,
                                                   processed[j].domain).result

\* http fails first, light is then loaded with its valid entries
C7_Witness ==
    /\ Len(processed) = 2
    /\ processed[1].domain = "http" /\ IsNone(processed[1].result)
    /\ processed[2].domain = "light"
    /\ Get(processed[2].result, LIGHT) = List(MapValidated(<<DEMO_ENTRY, HUE_ENTRY>>))
    /\ reporter.errors = << <<HTTP, TRUE>> >>

C9_Reassembled ==
    \A i \in PlatformRuns :
        LET domain == processed[i].domain
            result == processed[i].result
        IN
        /\ setup_component(processed[i])
        /\ IsDict(result) /\ IsList(Get(result, <<domain>>))
        /\ Keys(result) = (Keys(config) \ DomainKeys(domain)) \cup {<<domain>>}
        /\ \A k \in Keys(config) \ DomainKeys(domain) : Get(result, k) = Get(config, k)
        /\ Get(result, <<domain>>) =
             List(MapValidated(SelectSeq(RawEntries(domain),
                    LAMBDA e : ~Rejected(domain, e) /\ ~UnresolvedPlatform(domain, e))))

\* 'light 2' goes, 'lights' stays, the entries of both light keys are kept
C9_Witness ==
    /\ Len(processed) >= 1 /\ processed[1].domain = "light"
    /\ HasKey(config, LIGHT_2) /\ HasKey(config, LIGHTS)
    /\ ~HasKey(processed[1].result, LIGHT_2)
    /\ Get(processed[1].result, LIGHTS) = Get(config, LIGHTS)
    /\ Get(processed[1].result, LIGHT) = List(MapValidated(<<DEMO_ENTRY, HUE_ENTRY>>))

\* C10: an integration that cannot be resolved is recorded as an error and
\* the load goes on: for a package entry (one error logged) and for a
\* platform entry (dropped, and an error reported for it).
C10_ResolutionFailureReported ==
    /\ Returned =>
         \A i \in 1..Len(packages.d) :
            \A k \in {c \in Keys(packages.d[i][2]) : Unresolved(c)} :
                ErrorsOf(PackName(i), k) # {}
    /\ \A i \in PlatformRuns :
         LET domain == processed[i].domain IN
         \A n \in 1..Len(RawEntries(domain)) :
            UnresolvedPlatform(domain, RawEntries(domain)[n]) =>
                /\ \A m \in 1..Len(Get(processed[i].result, <<domain>>).l) :
                     Get(processed[i].result, <<domain>>).l[m] # RawEntries(domain)[n]
                /\ \E m \in 1..Len(reporter.log) :
                     reporter.log[m].config = RawEntries(domain)[n]


-----------------------------------------------------------------------------
(* CORE_CONFIG_SCHEMA *)

CONF_NAME == <<"name">>
CONF_LATITUDE == <<"latitude">>
CONF_LONGITUDE == <<"longitude">>
CONF_ELEVATION == <<"elevation">>
CONF_TEMPERATURE_UNIT == <<"temperature_unit">>
CONF_UNIT_SYSTEM == <<"unit_system">>
CONF_TIME_ZONE == <<"time_zone">>
CONF_WHITELIST_EXTERNAL_DIRS == <<"whitelist_external_dirs">>
CONF_PACKAGES == <<"packages">>
CONF_AUTH_PROVIDERS == <<"auth_providers">>
CONF_AUTH_MFA_MODULES == <<"auth_mfa_modules">>
CONF_CUSTOMIZE == <<"customize">>
CONF_CUSTOMIZE_DOMAIN == <<"customize_domain">>
CONF_CUSTOMIZE_GLOB == <<"customize_glob">>
CONF_TYPE == <<"type">>
CONF_ID == <<"id">>

CONF_UNIT_SYSTEM_METRIC == "metric"
CONF_UNIT_SYSTEM_IMPERIAL == "imperial"
TEMP_CELSIUS == "C"
TEMP_FAHRENHEIT == "F"
METRIC_SYSTEM == Str("metric")
IMPERIAL_SYSTEM == Str("imperial")

\* the time zones date_util.get_time_zone knows
TimeZones == {"UTC", "America/New_York"}
\* the coordinates cv.latitude and cv.longitude accept
Latitudes == {"40", "41"}
Longitudes == {"-73", "-74"}
\* the directories that exist (vol.IsDir)
Directories == {"/tmp", "/media"}

\* vol.Coerce(str): str(None) is 'None'
Coerce_str(v) ==
    IF v.t = "str" THEN Valid(v)
    ELSE IF IsNone(v) THEN Valid(Str("None"))
    ELSE Valid(Str("<repr>"))

\* vol.Coerce(int): a fraction is cut off, text that is no number fails
Coerce_int(v) ==
    IF v.t # "str" THEN Invalid
    ELSE IF v.s \in {"10", "10.7"} THEN Valid(Str("10"))
    ELSE IF v.s \in {"20", "20.2"} THEN Valid(Str("20"))
    ELSE Invalid

cv_latitude(v) == IF v.t = "str" /\ v.s \in Latitudes THEN Valid(v) ELSE Invalid
cv_longitude(v) == IF v.t = "str" /\ v.s \in Longitudes THEN Valid(v) ELSE Invalid

\* cv.temperature_unit: vol.All(vol.Upper, vol.In((C, F)))
Upper(x) == IF x = "c" THEN "C" ELSE IF x = "f" THEN "F" ELSE x
cv_temperature_unit(v) ==
    IF v.t = "str" /\ Upper(v.s) \in {TEMP_CELSIUS, TEMP_FAHRENHEIT}
    THEN Valid(Str(Upper(v.s))) ELSE Invalid

\* cv.unit_system: vol.All(vol.Lower, vol.Any(metric, imperial))
Lower(x) == IF x = "Metric" THEN "metric" ELSE IF x = "Imperial" THEN "imperial" ELSE x
cv_unit_system(v) ==
    IF v.t = "str" /\ Lower(v.s) \in {CONF_UNIT_SYSTEM_METRIC, CONF_UNIT_SYSTEM_IMPERIAL}
    THEN Valid(Str(Lower(v.s))) ELSE Invalid

\* date_util.get_time_zone: None for a name it does not know
get_time_zone(time_zone_str) ==
    IF time_zone_str.t = "str" /\ time_zone_str.s \in TimeZones
    THEN time_zone_str ELSE None

cv_time_zone(v) == IF ~IsNone(get_time_zone(v)) THEN Valid(v) ELSE Invalid

\* vol.All(cv.ensure_list, [vol.IsDir()])
WhitelistSchema(v) ==
    LET dirs == ensure_list(v) IN
    IF \A i \in 1..Len(dirs.l) : dirs.l[i].t = "str" /\ dirs.l[i].s \in Directories
    THEN Valid(dirs) ELSE Invalid

\* AUTH_PROVIDER_SCHEMA / MULTI_FACTOR_AUTH_MODULE_SCHEMA extended with
\* CONF_TYPE: vol.NotIn(['insecure_example'])
AuthItemSchema(item) ==
    /\ IsDict(item)
    /\ HasKey(item, CONF_TYPE)
    /\ Get(item, CONF_TYPE).t = "str"
    /\ Get(item, CONF_TYPE).s # "insecure_example"

\* Mutant: the providers are keyed as the MFA modules are
_no_duplicate_auth_provider_ById(configs) ==
    LET key(c) == GetDefault(c, CONF_ID, Get(c, CONF_TYPE)) IN
    IF \E i, j \in 1..Len(configs.l) : i < j /\ key(configs.l[i]) = key(configs.l[j])
    THEN Invalid ELSE Valid(configs)

\* key = (config[CONF_TYPE], config.get(CONF_ID)) must be new
_no_duplicate_auth_provider(configs) ==
    IF \E i, j \in 1..Len(configs.l) :
          /\ i < j
          /\ Get(configs.l[i], CONF_TYPE) = Get(configs.l[j], CONF_TYPE)
          /\ Get(configs.l[i], CONF_ID) = Get(configs.l[j], CONF_ID)
    THEN Invalid ELSE Valid(configs)

\* key = config.get(CONF_ID, config[CONF_TYPE]) must be new
_no_duplicate_auth_mfa_module(configs) ==
    LET key(c) == GetDefault(c, CONF_ID, Get(c, CONF_TYPE)) IN
    IF \E i, j \in 1..Len(configs.l) : i < j /\ key(configs.l[i]) = key(configs.l[j])
    THEN Invalid ELSE Valid(configs)

\* vol.All(cv.ensure_list, [item schema], no duplicates)
AuthProvidersSchema(v) ==
    LET configs == ensure_list(v) IN
    IF \A i \in 1..Len(configs.l) : AuthItemSchema(configs.l[i])
    THEN _no_duplicate_auth_provider(configs) ELSE Invalid

AuthMfaModulesSchema(v) ==
    LET configs == ensure_list(v) IN
    IF \A i \in 1..Len(configs.l) : AuthItemSchema(configs.l[i])
    THEN _no_duplicate_auth_mfa_module(configs) ELSE Invalid

\* cv.entity_id: '<domain>.<object id>', here the text <<domain, ".", id>>
cv_entity_id(k) == Len(k) = 3 /\ k[2] = "."

\* CUSTOMIZE_DICT_SCHEMA: a mapping (extra keys allowed)
CUSTOMIZE_DICT_SCHEMA(v) == IsDict(v)

\* vol.Schema({cv.entity_id: CUSTOMIZE_DICT_SCHEMA}) and its two siblings
CustomizeRulesSchema(key, v) ==
    IF /\ IsDict(v)
       /\ \A i \in 1..Len(v.d) :
            /\ CUSTOMIZE_DICT_SCHEMA(v.d[i][2])
            /\ key = CONF_CUSTOMIZE => cv_entity_id(v.d[i][1])
    THEN Valid(v) ELSE Invalid

CustomizeKeys == {CONF_CUSTOMIZE, CONF_CUSTOMIZE_DOMAIN, CONF_CUSTOMIZE_GLOB}

RECURSIVE WithDefaults(_, _)
\* vol.Optional(key, default={}) for the keys in order
WithDefaults(conf, keys) ==
    IF keys = <<>> THEN conf
    ELSE WithDefaults(IF HasKey(conf, keys[1]) THEN conf
                      ELSE Put(conf, keys[1], Dict(<<>>)), Tail(keys))

CustomizeField(key, v) ==
    IF key \in CustomizeKeys THEN CustomizeRulesSchema(key, v) ELSE Invalid

CoreField(key, v) ==
    IF key \in CustomizeKeys THEN CustomizeRulesSchema(key, v)
    ELSE IF key = CONF_NAME THEN Coerce_str(v)
    ELSE IF key = CONF_LATITUDE THEN cv_latitude(v)
    ELSE IF key = CONF_LONGITUDE THEN cv_longitude(v)
    ELSE IF key = CONF_ELEVATION THEN Coerce_int(v)
    ELSE IF key = CONF_TEMPERATURE_UNIT THEN cv_temperature_unit(v)
    ELSE IF key = CONF_UNIT_SYSTEM THEN cv_unit_system(v)
    ELSE IF key = CONF_TIME_ZONE THEN cv_time_zone(v)
    ELSE IF key = CONF_WHITELIST_EXTERNAL_DIRS THEN WhitelistSchema(v)
    ELSE IF key = CONF_PACKAGES
    THEN (IF PACKAGES_CONFIG_SCHEMA(v) THEN Valid(v) ELSE Invalid)
    ELSE IF key = CONF_AUTH_PROVIDERS THEN AuthProvidersSchema(v)
    ELSE IF key = CONF_AUTH_MFA_MODULES THEN AuthMfaModulesSchema(v)
    ELSE Invalid

RECURSIVE SchemaItems_SkipInvalid(_, _, _, _)
\* Mutant: a rejected key is left out and the rest of the mapping is kept
SchemaItems_SkipInvalid(core, items, i, acc) ==
    IF i > Len(items) THEN Valid(acc)
    ELSE LET f == IF core THEN CoreField(items[i][1], items[i][2])
                  ELSE CustomizeField(items[i][1], items[i][2])
         IN
         SchemaItems_SkipInvalid(core, items, i + 1,
                                 IF f.ok THEN Put(acc, items[i][1], f.value) ELSE acc)

RECURSIVE SchemaItems(_, _, _, _)
\* every key of the mapping is validated by the schema's field validator
\* (core: CORE_CONFIG_SCHEMA, otherwise CUSTOMIZE_CONFIG_SCHEMA); an unknown
\* key or a rejected value fails the whole mapping
SchemaItems(core, items, i, acc) ==
    IF i > Len(items) THEN Valid(acc)
    ELSE LET f == IF core THEN CoreField(items[i][1], items[i][2])
                  ELSE CustomizeField(items[i][1], items[i][2])
         IN
         IF ~f.ok THEN Invalid
         ELSE SchemaItems(core, items, i + 1, Put(acc, items[i][1], f.value))

CUSTOMIZE_CONFIG_SCHEMA(conf) ==
    IF ~IsDict(conf) THEN Invalid
    ELSE LET r == SchemaItems(FALSE, conf.d, 1, Dict(<<>>)) IN
         IF ~r.ok THEN Invalid
         ELSE Valid(WithDefaults(r.value,
                <<CONF_CUSTOMIZE, CONF_CUSTOMIZE_DOMAIN, CONF_CUSTOMIZE_GLOB>>))

\* CORE_CONFIG_SCHEMA(config): the validated section, or vol.Invalid
CORE_CONFIG_SCHEMA(conf) ==
    IF ~IsDict(conf) THEN Invalid
    ELSE LET r == SchemaItems(TRUE, conf.d, 1, Dict(<<>>)) IN
         IF ~r.ok THEN Invalid
         ELSE Valid(WithDefaults(r.value,
                <<CONF_CUSTOMIZE, CONF_CUSTOMIZE_DOMAIN, CONF_CUSTOMIZE_GLOB,
                  CONF_PACKAGES>>))


-----------------------------------------------------------------------------
(* async_process_ha_core_config *)

True == Str("True")
False == Str("False")

\* auth_conf when the section has no auth_providers: the built-in provider,
\* then the legacy password and the trusted networks when they are given
DefaultAuthConf(api_password, trusted_networks) ==
    List(<< Dict(<< <<CONF_TYPE, Str("openpeerpower")>> >>) >>
         \o (IF ~Falsy(api_password)
             THEN << Dict(<< <<CONF_TYPE, Str("legacy_api_password")>>,
                             << <<"api_password">>, api_password>> >>) >>
             ELSE <<>>)
         \o (IF ~Falsy(trusted_networks)
             THEN << Dict(<< <<CONF_TYPE, Str("trusted_networks")>>,
                             << <<"trusted_networks">>, trusted_networks>> >>) >>
             ELSE <<>>))

\* config.get(CONF_AUTH_MFA_MODULES, [totp])
DefaultMfaConf ==
    List(<< Dict(<< <<CONF_TYPE, Str("totp")>>, <<CONF_ID, Str("totp")>>,
                    <<CONF_NAME, Str("Authenticator app")>> >>) >>)

\* auth.auth_manager_from_config(opp, auth_conf, mfa_conf): the manager
\* built from the two lists
auth_manager_from_config(auth_conf, mfa_conf) ==
    Dict(<< << <<"providers">>, auth_conf>>, << <<"mfa_modules">>, mfa_conf>> >>)

\* Mutant: the auth manager is looked for nowhere, every call builds one
NoAuth_Always(o) == TRUE

\* not hasattr(opp, 'auth')
NoAuth(o) == IsNone(o.auth)

\* if not hasattr(opp, 'auth'): ... setattr(opp, 'auth', ...)
LoadAuth(o, conf, api_password, trusted_networks) ==
    IF ~NoAuth(o) THEN o
    ELSE LET got == Get(conf, CONF_AUTH_PROVIDERS)
             auth_conf == IF IsNone(got)
                          THEN DefaultAuthConf(api_password, trusted_networks)
                          ELSE got
             mfa_conf == GetDefault(conf, CONF_AUTH_MFA_MODULES, DefaultMfaConf)
         IN [o EXCEPT !.auth = auth_manager_from_config(auth_conf, mfa_conf)]

\* set_time_zone(time_zone_str): nothing for None, nothing but an error
\* message for a name that is no time zone
set_time_zone(hac, time_zone_str) ==
    IF IsNone(time_zone_str) THEN hac
    ELSE LET time_zone == get_time_zone(time_zone_str) IN
         IF ~Falsy(time_zone) THEN [hac EXCEPT !.time_zone = time_zone]
         ELSE hac

\* Mutant: a key that is not in the section clears its attribute
SetExplicit_Reset(hac, conf) ==
    [hac EXCEPT
        !.latitude = Get(conf, CONF_LATITUDE),
        !.longitude = Get(conf, CONF_LONGITUDE),
        !.location_name = Get(conf, CONF_NAME),
        !.elevation = Get(conf, CONF_ELEVATION)]

\* for key, attr in (...): if key in config: setattr(hac, attr, config[key])
SetExplicit(hac, conf) ==
    [hac EXCEPT
        !.latitude = IF HasKey(conf, CONF_LATITUDE) THEN Get(conf, CONF_LATITUDE) ELSE @,
        !.longitude = IF HasKey(conf, CONF_LONGITUDE) THEN Get(conf, CONF_LONGITUDE) ELSE @,
        !.location_name = IF HasKey(conf, CONF_NAME) THEN Get(conf, CONF_NAME) ELSE @,
        !.elevation = IF HasKey(conf, CONF_ELEVATION) THEN Get(conf, CONF_ELEVATION) ELSE @]

\* opp.config.path('www')
WWW == "/config/www"

\* hac.whitelist_external_dirs = {path('www')}, updated with the listed ones
SetWhitelist(hac, conf) ==
    [hac EXCEPT !.whitelist_external_dirs =
        {WWW} \cup
        (IF HasKey(conf, CONF_WHITELIST_EXTERNAL_DIRS)
         THEN LET dirs == Get(conf, CONF_WHITELIST_EXTERNAL_DIRS).l IN
              {dirs[i].s : i \in 1..Len(dirs)}
         ELSE {})]

RECURSIVE Update(_, _, _)
\* dict.update(other): the items of other from item i on are put into d
Update(d, items, i) ==
    IF i > Len(items) THEN d
    ELSE Update(Put(d, items[i][1], items[i][2]), items, i + 1)

\* EntityValues(cust_exact, cust_domain, cust_glob)
EntityValues(cust_exact, cust_domain, cust_glob) ==
    Dict(<< <<CONF_CUSTOMIZE, cust_exact>>, <<CONF_CUSTOMIZE_DOMAIN, cust_domain>>,
            <<CONF_CUSTOMIZE_GLOB, cust_glob>> >>)

RECURSIVE LayerPackages_StopAtInvalid(_, _, _)
\* Mutant: an invalid core sub-section ends the loop over the packages
LayerPackages_StopAtInvalid(cust, pkgs, i) ==
    IF i > Len(pkgs) THEN cust
    ELSE LET pkg_cust == Get(pkgs[i][2], CONF_CORE)
             checked == CUSTOMIZE_CONFIG_SCHEMA(pkg_cust)
         IN
         IF IsNone(pkg_cust) THEN LayerPackages_StopAtInvalid(cust, pkgs, i + 1)
         ELSE IF ~checked.ok THEN cust
         ELSE LayerPackages_StopAtInvalid(
                EntityValues(
                  Update(Get(cust, CONF_CUSTOMIZE),
                         Get(checked.value, CONF_CUSTOMIZE).d, 1),
                  Update(Get(cust, CONF_CUSTOMIZE_DOMAIN),
                         Get(checked.value, CONF_CUSTOMIZE_DOMAIN).d, 1),
                  Update(Get(cust, CONF_CUSTOMIZE_GLOB),
                         Get(checked.value, CONF_CUSTOMIZE_GLOB).d, 1)),
                pkgs, i + 1)

RECURSIVE LayerPackages(_, _, _)
\* The loop over config[CONF_PACKAGES].items() from package i on: the
\* customize rules of the package's core sub-section update the three rule
\* sets; no sub-section or an invalid one changes nothing
LayerPackages(cust, pkgs, i) ==
    IF i > Len(pkgs) THEN cust
    ELSE LET pkg_cust == Get(pkgs[i][2], CONF_CORE)
             checked == CUSTOMIZE_CONFIG_SCHEMA(pkg_cust)
         IN
         IF IsNone(pkg_cust) \/ ~checked.ok THEN LayerPackages(cust, pkgs, i + 1)
         ELSE LayerPackages(
                EntityValues(
                  Update(Get(cust, CONF_CUSTOMIZE),
                         Get(checked.value, CONF_CUSTOMIZE).d, 1),
                  Update(Get(cust, CONF_CUSTOMIZE_DOMAIN),
                         Get(checked.value, CONF_CUSTOMIZE_DOMAIN).d, 1),
                  Update(Get(cust, CONF_CUSTOMIZE_GLOB),
                         Get(checked.value, CONF_CUSTOMIZE_GLOB).d, 1)),
                pkgs, i + 1)

\* opp.data[DATA_CUSTOMIZE]
Customize(conf) ==
    LayerPackages(EntityValues(Get(conf, CONF_CUSTOMIZE),
                               Get(conf, CONF_CUSTOMIZE_DOMAIN),
                               Get(conf, CONF_CUSTOMIZE_GLOB)),
                  Get(conf, CONF_PACKAGES).d, 1)

\* Mutant: the deprecated temperature unit is looked at first
SetUnits_TemperatureFirst(hac, conf) ==
    IF HasKey(conf, CONF_TEMPERATURE_UNIT)
    THEN [hac EXCEPT !.units = IF Get(conf, CONF_TEMPERATURE_UNIT) = Str(TEMP_CELSIUS)
                               THEN METRIC_SYSTEM ELSE IMPERIAL_SYSTEM]
    ELSE IF HasKey(conf, CONF_UNIT_SYSTEM)
    THEN [hac EXCEPT !.units = IF Get(conf, CONF_UNIT_SYSTEM) = Str(CONF_UNIT_SYSTEM_IMPERIAL)
                               THEN IMPERIAL_SYSTEM ELSE METRIC_SYSTEM]
    ELSE hac

\* if CONF_UNIT_SYSTEM in config: ... elif CONF_TEMPERATURE_UNIT in config: ...
SetUnits(hac, conf) ==
    IF HasKey(conf, CONF_UNIT_SYSTEM)
    THEN [hac EXCEPT !.units = IF Get(conf, CONF_UNIT_SYSTEM) = Str(CONF_UNIT_SYSTEM_IMPERIAL)
                               THEN IMPERIAL_SYSTEM ELSE METRIC_SYSTEM]
    ELSE IF HasKey(conf, CONF_TEMPERATURE_UNIT)
    THEN [hac EXCEPT !.units = IF Get(conf, CONF_TEMPERATURE_UNIT) = Str(TEMP_CELSIUS)
                               THEN METRIC_SYSTEM ELSE IMPERIAL_SYSTEM]
    ELSE hac

\* None not in (hac.latitude, hac.longitude, hac.units, hac.time_zone,
\*              hac.elevation): the shortcut
NothingToDetect(hac) ==
    /\ ~IsNone(hac.latitude) /\ ~IsNone(hac.longitude) /\ ~IsNone(hac.units)
    /\ ~IsNone(hac.time_zone) /\ ~IsNone(hac.elevation)

\* None in (hac.latitude, hac.longitude, hac.units, hac.time_zone)
LocationMissing(hac) ==
    \/ IsNone(hac.latitude) \/ IsNone(hac.longitude) \/ IsNone(hac.units)
    \/ IsNone(hac.time_zone)

\* A lookup that was made: its kind, the coordinates handed to it (an
\* elevation lookup) and what it returned
Lookup(kind, latitude, longitude, answer) ==
    [kind |-> kind, latitude |-> latitude, longitude |-> longitude, answer |-> answer]

\* the steps of the detection work on st = [hac, discovered]
DetectLatLon(st, info) ==
    IF IsNone(st.hac.latitude) /\ IsNone(st.hac.longitude)
    THEN [hac |-> [st.hac EXCEPT !.latitude = Get(info, CONF_LATITUDE),
                                 !.longitude = Get(info, CONF_LONGITUDE)],
          discovered |-> st.discovered
              \o << <<"latitude", Get(info, CONF_LATITUDE)>>,
                    <<"longitude", Get(info, CONF_LONGITUDE)>> >>]
    ELSE st

\* Mutant: the units of the lookup replace the units found so far
DetectUnits_Overwrite(st, info) ==
    LET units == IF Get(info, <<"use_metric">>) = True
                 THEN METRIC_SYSTEM ELSE IMPERIAL_SYSTEM
    IN [hac |-> [st.hac EXCEPT !.units = units],
        discovered |-> Append(st.discovered, <<"unit_system", units>>)]

DetectUnits(st, info) ==
    IF IsNone(st.hac.units)
    THEN LET units == IF Get(info, <<"use_metric">>) = True
                      THEN METRIC_SYSTEM ELSE IMPERIAL_SYSTEM
         IN [hac |-> [st.hac EXCEPT !.units = units],
             discovered |-> Append(st.discovered, <<"unit_system", units>>)]
    ELSE st

DetectName(st, info) ==
    IF IsNone(st.hac.location_name)
    THEN [hac |-> [st.hac EXCEPT !.location_name = Get(info, <<"city">>)],
          discovered |-> Append(st.discovered, <<"name", Get(info, <<"city">>)>>)]
    ELSE st

DetectTimeZone(st, info) ==
    IF IsNone(st.hac.time_zone)
    THEN [hac |-> set_time_zone(st.hac, Get(info, CONF_TIME_ZONE)),
          discovered |-> Append(st.discovered,
                                <<"time_zone", Get(info, CONF_TIME_ZONE)>>)]
    ELSE st

\* the four steps after a location lookup that returned data
FromInfo(st, info) ==
    DetectTimeZone(DetectName(DetectUnits(DetectLatLon(st, info), info), info), info)

\* hac.elevation is None and hac.latitude is not None and
\* hac.longitude is not None
ElevationMissing(hac) ==
    IsNone(hac.elevation) /\ ~IsNone(hac.latitude) /\ ~IsNone(hac.longitude)

\* Mutant: a lookup without data leaves a default behind
DetectElevation_Default(st, elevation) ==
    LET found == IF IsNone(elevation) THEN Str("0") ELSE elevation IN
    [hac |-> [st.hac EXCEPT !.elevation = found],
     discovered |-> Append(st.discovered, <<"elevation", found>>),
     lookups |-> <<Lookup("elevation", st.hac.latitude, st.hac.longitude, elevation)>>]

\* elevation = await loc_util.async_get_elevation(session, latitude,
\* longitude); hac.elevation = elevation
DetectElevation(st, elevation) ==
    [hac |-> [st.hac EXCEPT !.elevation = elevation],
     discovered |-> Append(st.discovered, <<"elevation", elevation>>),
     lookups |-> <<Lookup("elevation", st.hac.latitude, st.hac.longitude, elevation)>>]

\* Mutant: the location is looked up in every call
Detect_AlwaysLocate(hac, info, elevation) ==
    LET asked == <<Lookup("location", None, None, info)>> IN
    IF IsNone(info) THEN [hac |-> hac, discovered |-> <<>>, lookups |-> asked]
    ELSE LET located == FromInfo([hac |-> hac, discovered |-> <<>>], info) IN
         IF ElevationMissing(located.hac)
         THEN LET e == DetectElevation(located, elevation) IN
              [e EXCEPT !.lookups = asked \o @]
         ELSE [hac |-> located.hac, discovered |-> located.discovered,
               lookups |-> asked]

\* The auto-detection: info is what async_detect_location_info returns when
\* it is called, elevation what async_get_elevation returns when it is called
Detect(hac, info, elevation) ==
    LET none == [hac |-> hac, discovered |-> <<>>, lookups |-> <<>>] IN
    IF NothingToDetect(hac) THEN none
    ELSE IF LocationMissing(hac) /\ IsNone(info)
    THEN [none EXCEPT !.lookups = <<Lookup("location", None, None, info)>>]
    ELSE LET located == IF LocationMissing(hac)
                        THEN FromInfo([hac |-> hac, discovered |-> <<>>], info)
                        ELSE [hac |-> hac, discovered |-> <<>>]
             before == IF LocationMissing(hac)
                       THEN <<Lookup("location", None, None, info)>> ELSE <<>>
         IN
         IF ElevationMissing(located.hac)
         THEN LET e == DetectElevation(located, elevation) IN
              [e EXCEPT !.lookups = before \o @]
         ELSE [hac |-> located.hac, discovered |-> located.discovered,
               lookups |-> before]

\* The call from the validated section c on.  Every step is bound as a
\* value before the next one uses it: the auth manager, hac with the
\* explicit settings, the customize rules and the detection; the result is
\* the one element of the set.
ProcessValidated(o, c, api_password, trusted_networks, info, elevation) ==
    UNION {UNION {{[opp |-> [auth |-> o1.auth, config |-> det.hac,
                             customize |-> cust],
                    explicit |-> hac, lookups |-> det.lookups,
                    discovered |-> det.discovered,
                    raised |-> FALSE, built |-> NoAuth(o)] :
                        det \in {Detect(hac, info, elevation)},
                        cust \in {Customize(c)}} :
                  hac \in {SetUnits(SetWhitelist(set_time_zone(SetExplicit(o1.config, c),
                                                               Get(c, CONF_TIME_ZONE)),
                                                 c), c)}} :
           o1 \in {LoadAuth(o, c, api_password, trusted_networks)}}

\* What the call raises, writes and looks up: the result holds opp after
\* the call, hac as it was when the detection started, the lookups made and
\* the values discovered, whether vol.Invalid was raised and whether an auth
\* manager was built
async_process_ha_core_config(o, conf, api_password, trusted_networks, info, elevation) ==
    CHOOSE r \in UNION {IF ~checked.ok
                        THEN {[opp |-> o, explicit |-> o.config, lookups |-> <<>>,
                               discovered |-> <<>>, raised |-> TRUE, built |-> FALSE]}
                        ELSE ProcessValidated(o, checked.value, api_password,
                                              trusted_networks, info, elevation) :
                           checked \in {CORE_CONFIG_SCHEMA(conf)}} : TRUE


-----------------------------------------------------------------------------
(* The calls of async_process_ha_core_config: the first set-up and the
   reloads of the core section *)

MaxCalls == 2

RECURSIVE Pick(_, _)
\* the pairs of a list whose key is in ks, in the order of the list
Pick(pairs, ks) ==
    IF pairs = <<>> THEN <<>>
    ELSE (IF pairs[1][1] \in ks THEN <<pairs[1]>> ELSE <<>>) \o Pick(Tail(pairs), ks)

\* the explicit settings of a home and of a second home
HomePairs ==
    << <<CONF_LATITUDE, Str("40")>>, <<CONF_LONGITUDE, Str("-73")>>,
       <<CONF_NAME, Str("Home")>>, <<CONF_ELEVATION, Str("10.7")>>,
       <<CONF_TIME_ZONE, Str("UTC")>>, <<CONF_UNIT_SYSTEM, Str("imperial")>> >>
AwayPairs ==
    << <<CONF_LATITUDE, Str("41")>>, <<CONF_LONGITUDE, Str("-74")>>,
       <<CONF_NAME, Str("Away")>>, <<CONF_ELEVATION, Str("20")>>,
       <<CONF_TIME_ZONE, Str("America/New_York")>>, <<CONF_UNIT_SYSTEM, Str("Metric")>> >>
LocationKeys ==
    {CONF_LATITUDE, CONF_LONGITUDE, CONF_NAME, CONF_ELEVATION, CONF_TIME_ZONE,
     CONF_UNIT_SYSTEM}

\* core sections with any part of the home settings
LocationSections == {Dict(Pick(HomePairs, ks)) : ks \in SUBSET LocationKeys}

\* core sections with the two unit keys, with and without the rest known
UnitSections ==
    {Dict(Pick(HomePairs, ks) \o us \o ts) :
        ks \in {{}, {CONF_LATITUDE, CONF_LONGITUDE, CONF_ELEVATION, CONF_TIME_ZONE}},
        us \in {<<>>, << <<CONF_UNIT_SYSTEM, Str("metric")>> >>,
                << <<CONF_UNIT_SYSTEM, Str("Imperial")>> >>},
        ts \in {<<>>, << <<CONF_TEMPERATURE_UNIT, Str("C")>> >>,
                << <<CONF_TEMPERATURE_UNIT, Str("f")>> >>}}

PROVIDER_A == Dict(<< <<CONF_TYPE, Str("command_line")>> >>)
PROVIDER_B1 == Dict(<< <<CONF_TYPE, Str("legacy_api_password")>>, <<CONF_ID, Str("one")>> >>)
PROVIDER_B2 == Dict(<< <<CONF_TYPE, Str("legacy_api_password")>>, <<CONF_ID, Str("two")>> >>)
MFA_NOTIFY == Dict(<< <<CONF_TYPE, Str("notify")>> >>)
KITCHEN == <<"light", ".", "kitchen">>
HIDDEN == Dict(<< << <<"hidden">>, True>> >>)
SHOWN == Dict(<< << <<"hidden">>, False>> >>)

\* core sections with auth lists, a whitelist, customize rules and packages
AuthSections ==
    {Dict(HomePairs \o ps \o ms) :
        ps \in {<<>>, << <<CONF_AUTH_PROVIDERS, List(<<PROVIDER_A>>)>> >>,
                << <<CONF_AUTH_PROVIDERS, List(<<PROVIDER_B1, PROVIDER_B2>>)>> >>},
        ms \in {<<>>, << <<CONF_AUTH_MFA_MODULES, MFA_NOTIFY>> >>}}
    \cup
    {Dict(<< <<CONF_WHITELIST_EXTERNAL_DIRS, Str("/tmp")>>,
             <<CONF_CUSTOMIZE, Dict(<< <<KITCHEN, HIDDEN>> >>)>>,
             <<CONF_PACKAGES, Dict(<< <<PKG1, Dict(<< <<CONF_CORE,
                 Dict(<< <<CONF_CUSTOMIZE, Dict(<< <<KITCHEN, SHOWN>> >>)>> >>)>> >>)>>,
                                      <<PKG2, Dict(<< <<CONF_CORE, List(<<S1>>)>>, <<HTTP, None>> >>)>> >>)>> >>)}

HALL == <<"light", ".", "hall">>
GLOB == <<"light.*">>

\* core sub-sections of a package CUSTOMIZE_CONFIG_SCHEMA accepts
GoodCores ==
    {Dict(<< <<CONF_CUSTOMIZE, Dict(<< <<KITCHEN, SHOWN>> >>)>> >>),
     Dict(<< <<CONF_CUSTOMIZE, Dict(<< <<HALL, HIDDEN>>, <<KITCHEN, HIDDEN>> >>)>>,
             <<CONF_CUSTOMIZE_DOMAIN, Dict(<< <<LIGHT, SHOWN>> >>)>> >>),
     Dict(<< <<CONF_CUSTOMIZE_GLOB, Dict(<< <<GLOB, HIDDEN>> >>)>> >>)}

\* core sub-sections it rejects: no mapping, an unknown key, a key that is
\* no entity id, rules that are no mapping
BadCores ==
    {List(<<S1>>),
     Dict(<< <<CONF_CUSTOMIZE, Dict(<< <<HALL, SHOWN>> >>)>>, <<CONF_NAME, Dict(<<>>)>> >>),
     Dict(<< <<CONF_CUSTOMIZE, Dict(<< <<LIGHT, SHOWN>> >>)>> >>),
     Dict(<< <<CONF_CUSTOMIZE_DOMAIN, Dict(<< <<LIGHT, List(<<S1>>)>> >>)>> >>)}

\* packages with a core sub-section, and one without
CorePackages ==
    {Dict(<< <<CONF_CORE, core>>, <<HTTP, None>> >>) : core \in GoodCores \cup BadCores}
    \cup {Dict(<< <<HTTP, Dict(<< <<PORT, S1>> >>)>> >>)}

\* core sections with customize rules of their own and of one or two packages
CustomizeSections ==
    {Dict(own \o << <<CONF_PACKAGES, Dict(<< <<PKG1, p1>> >> \o p2)>> >>) :
        own \in {<<>>, << <<CONF_CUSTOMIZE, Dict(<< <<KITCHEN, HIDDEN>> >>)>>,
                          <<CONF_CUSTOMIZE_DOMAIN, Dict(<< <<LIGHT, HIDDEN>> >>)>> >>},
        p1 \in CorePackages,
        p2 \in {<<>>} \cup {<< <<PKG2, p>> >> : p \in CorePackages}}

\* core sections CORE_CONFIG_SCHEMA rejects
InvalidSections ==
    {Dict(HomePairs \o << <<OPT, S1>> >>),
     Dict(<< <<CONF_NAME, Str("Away")>>, <<CONF_LATITUDE, Str("91")>> >>),
     Dict(<< <<CONF_ELEVATION, Str("20")>>, <<CONF_TIME_ZONE, Str("Mars/Olympus")>> >>),
     Dict(AwayPairs \o << <<CONF_AUTH_PROVIDERS, List(<<PROVIDER_A, PROVIDER_A>>)>> >>),
     Dict(<< <<CONF_WHITELIST_EXTERNAL_DIRS, List(<<Str("/tmp"), Str("/nowhere")>>)>>,
             <<CONF_CUSTOMIZE, Dict(<< <<KITCHEN, HIDDEN>> >>)>> >>),
     List(<<S1>>)}

\* LocationInfo as the location service returns it
LocationInfo(time_zone, use_metric) ==
    Dict(<< <<CONF_LATITUDE, Str("41")>>, <<CONF_LONGITUDE, Str("-74")>>,
            <<CONF_TIME_ZONE, Str(time_zone)>>, << <<"use_metric">>, use_metric>>,
            << <<"city">>, Str("Testville")>> >>)

\* what async_detect_location_info can return: None when the detection
\* failed, else the data of the service (with a time zone name that
\* date_util may or may not know)
Infos ==
    {None, LocationInfo("America/New_York", False), LocationInfo("America/New_York", True),
     LocationInfo("Mars/Olympus", True)}

\* what async_get_elevation can return
Elevations == {None, Str("20")}

InitProcess ==
    /\ config = Dict(<<>>)
    /\ config0 = config
    /\ packages = None
    /\ pkg_errors = <<>>
    /\ outcome = "init"
    /\ processed = <<>>
    /\ reporter = NoReports
    /\ InitCore
    /\ InitIdle

\* One call of async_process_ha_core_config, with what the two lookups
\* return if they are made
ProcessCore(conf, api_password, trusted_networks, info, elevation) ==
    /\ \E r \in {async_process_ha_core_config(opp, conf, api_password,
                                                trusted_networks, info, elevation)} :
        /\ opp' = r.opp
        /\ core_call' = [config |-> conf, previous |-> core_call.config,
                         api_password |-> api_password,
                         trusted_networks |-> trusted_networks,
                         before |-> opp, explicit |-> r.explicit,
                         lookups |-> r.lookups, discovered |-> r.discovered,
                         raised |-> r.raised, built |-> r.built]
        /\ ncalls' = ncalls + 1
        /\ auth_builds' = auth_builds + (IF r.built THEN 1 ELSE 0)
    /\ UNCHANGED <<config, mergeVars, validateVars, notifyVars, authVars>>

\* the first set-up: the section comes from one of the four families
SetupLocation ==
    /\ ncalls = 0
    /\ \E conf \in LocationSections, info \in Infos, elevation \in Elevations :
          ProcessCore(conf, None, None, info, elevation)

SetupUnits ==
    /\ ncalls = 0
    /\ \E conf \in UnitSections, info \in Infos, elevation \in Elevations :
          ProcessCore(conf, None, None, info, elevation)

SetupAuth ==
    /\ ncalls = 0
    /\ \E conf \in AuthSections, api_password \in {None, Str("secret")},
          trusted_networks \in {None, List(<<Str("10.0.0.0/8")>>)} :
          ProcessCore(conf, api_password, trusted_networks, None, None)

SetupCustomize ==
    /\ ncalls = 0
    /\ \E conf \in CustomizeSections : ProcessCore(conf, None, None, None, None)

SetupInvalid ==
    /\ ncalls = 0
    /\ \E conf \in InvalidSections : ProcessCore(conf, None, None, None, None)

\* the core sections of a reload
ReloadSections ==
    {Dict(<<>>),
     Dict(AwayPairs),
     Dict(Pick(AwayPairs, {CONF_LATITUDE, CONF_TIME_ZONE})),
     Dict(<< <<CONF_TEMPERATURE_UNIT, Str("C")>> >>),
     Dict(Pick(HomePairs, {CONF_NAME})
          \o << <<CONF_AUTH_PROVIDERS, List(<<PROVIDER_A>>)>>,
                <<CONF_AUTH_MFA_MODULES, MFA_NOTIFY>>,
                <<CONF_CUSTOMIZE_DOMAIN, Dict(<< <<LIGHT, HIDDEN>> >>)>> >>),
     Dict(HomePairs \o << <<OPT, S1>> >>)}

\* a reload of the core section (the service calls the function again,
\* without password and networks)
Reload ==
    /\ 0 < ncalls /\ ncalls < MaxCalls
    /\ \E conf \in ReloadSections,
          info \in {None, LocationInfo("America/New_York", False)},
          elevation \in Elevations :
          ProcessCore(conf, None, None, info, elevation)

\* a reload of an unchanged core section
ReloadSame ==
    /\ 0 < ncalls /\ ncalls < MaxCalls
    /\ \E info \in {None, LocationInfo("America/New_York", False)},
          elevation \in Elevations :
          ProcessCore(core_call.config, None, None, info, elevation)

NextProcess ==
    \/ SetupLocation \/ SetupUnits \/ SetupAuth \/ SetupCustomize \/ SetupInvalid
    \/ Reload \/ ReloadSame

SpecProcess == InitProcess /\ [][NextProcess]_vars


-----------------------------------------------------------------------------
(* Vocabulary of the statements about the core config processor *)

\* a call has been made; the last call returned / raised vol.Invalid
CoreCalled == ncalls > 0
CoreReturned == CoreCalled /\ ~core_call.raised
CoreRaised == CoreCalled /\ core_call.raised

\* the CoreConfig when the last call started, when its detection started
\* and now
HacBefore == core_call.before.config
HacExplicit == core_call.explicit
HacAfter == opp.config

\* the lookups of the last call of one kind
LookupsOf(kind) == SelectSeq(core_call.lookups, LAMBDA l : l.kind = kind)

\* C11: over any sequence of calls the auth manager is built and installed
\* exactly once, by the first call that gets to look for it and finds none
\* (from that call's lists or the defaults); later calls neither rebuild
\* nor replace it, whatever their auth configuration says.
C11_AuthManagerOnce ==
    /\ [](/\ auth_builds <= 1
          /\ (auth_builds = 1) = ~IsNone(opp.auth)
          /\ CoreReturned => ~IsNone(opp.auth)
          /\ CoreCalled => (core_call.built = (CoreReturned /\ IsNone(core_call.before.auth)))
          /\ (CoreCalled /\ core_call.built) =>
                opp.auth = auth_manager_from_config(
                    IF HasKey(core_call.config, CONF_AUTH_PROVIDERS)
                    THEN ensure_list(Get(core_call.config, CONF_AUTH_PROVIDERS))
                    ELSE DefaultAuthConf(core_call.api_password,
                                         core_call.trusted_networks),
                    IF HasKey(core_call.config, CONF_AUTH_MFA_MODULES)
                    THEN ensure_list(Get(core_call.config, CONF_AUTH_MFA_MODULES))
                    ELSE DefaultMfaConf))
    /\ [][~IsNone(opp.auth) => (opp'.auth = opp.auth /\ auth_builds' = auth_builds)]_vars

\* a reload that names auth providers finds the manager of the first
\* set-up and leaves it
C11_Witness ==
    /\ ncalls = 2 /\ auth_builds = 1
    /\ ~core_call.raised
    /\ HasKey(core_call.config, CONF_AUTH_PROVIDERS)
    /\ ~IsNone(core_call.before.auth)
    /\ opp.auth = core_call.before.auth
    /\ Get(opp.auth, <<"providers">>) # Get(core_call.config, CONF_AUTH_PROVIDERS)


\* C12: a core section that breaks CORE_CONFIG_SCHEMA makes the call raise
\* the validation error, before any effect: CoreConfig, whitelist,
\* customize rules and auth manager are as they were and no lookup is made.
\* (A section the schema accepts does not raise.)
C12_InvalidCoreIsFatal ==
    CoreCalled =>
        /\ core_call.raised = (core_call.config \in InvalidSections)
        /\ core_call.raised =>
              /\ opp = core_call.before
              /\ core_call.lookups = <<>>
              /\ ~core_call.built

\* a reload with an invalid section after a set-up that wrote the
\* CoreConfig and installed the auth manager
C12_Witness ==
    /\ ncalls = 2 /\ core_call.raised
    /\ ~IsNone(core_call.before.auth)
    /\ ~IsNone(core_call.before.config.latitude)
    /\ ~IsNone(core_call.before.customize)
    /\ HasKey(core_call.config, CONF_LATITUDE)
    /\ opp.config.latitude # Get(core_call.config, CONF_LATITUDE)


\* latitude, longitude, units, time zone and elevation are all known
AllKnown(hac) ==
    \A v \in {hac.latitude, hac.longitude, hac.units, hac.time_zone, hac.elevation} :
        ~IsNone(v)

\* C13: when latitude, longitude, units, time zone and elevation are all
\* known after the explicit keys have been applied, the call makes no
\* lookup at all (and the detection changes nothing).
C13_NoLookupWhenAllKnown ==
    (CoreReturned /\ AllKnown(HacExplicit)) =>
        /\ core_call.lookups = <<>>
        /\ HacAfter = HacExplicit

\* all five are given in the section of a first set-up, the name is not
C13_Witness ==
    /\ ncalls = 1 /\ CoreReturned
    /\ \A k \in LocationKeys \ {CONF_NAME} : HasKey(core_call.config, k)
    /\ ~HasKey(core_call.config, CONF_NAME)
    /\ AllKnown(HacExplicit)
    /\ IsNone(HacAfter.location_name)
    /\ core_call.lookups = <<>>


\* the location lookup of the last call returned data
Located ==
    /\ CoreReturned
    /\ Len(LookupsOf("location")) = 1
    /\ ~IsNone(LookupsOf("location")[1].answer)
InfoOfCall == LookupsOf("location")[1].answer

\* C14: the detection never overwrites a value: each of latitude,
\* longitude, units, location name, time zone and elevation that is set
\* when the detection starts (from the section or from an earlier call) has
\* the same value after the call, whatever the lookups return.
C14_DetectionKeepsValues ==
    CoreReturned =>
        /\ ~IsNone(HacExplicit.latitude) => HacAfter.latitude = HacExplicit.latitude
        /\ ~IsNone(HacExplicit.longitude) => HacAfter.longitude = HacExplicit.longitude
        /\ ~IsNone(HacExplicit.units) => HacAfter.units = HacExplicit.units
        /\ ~IsNone(HacExplicit.location_name) =>
              HacAfter.location_name = HacExplicit.location_name
        /\ ~IsNone(HacExplicit.time_zone) => HacAfter.time_zone = HacExplicit.time_zone
        /\ ~IsNone(HacExplicit.elevation) => HacAfter.elevation = HacExplicit.elevation

\* the time zone is missing, the lookup returns other coordinates, units
\* and name than the ones set, and only the time zone is taken from it
C14_Witness ==
    /\ Located
    /\ HacExplicit.latitude = Str("40") /\ Get(InfoOfCall, CONF_LATITUDE) = Str("41")
    /\ HacExplicit.units = IMPERIAL_SYSTEM /\ Get(InfoOfCall, <<"use_metric">>) = True
    /\ HacExplicit.location_name = Str("Home")
    /\ IsNone(HacExplicit.time_zone)
    /\ HacAfter.time_zone = Str("America/New_York")
    /\ HacAfter.latitude = Str("40") /\ HacAfter.units = IMPERIAL_SYSTEM


\* one of latitude, longitude, units, location name, time zone is missing
SomeLocationFieldMissing(hac) ==
    \E v \in {hac.latitude, hac.longitude, hac.units, hac.location_name, hac.time_zone} :
        IsNone(v)

\* C15: whenever latitude, longitude, units, location name or time zone is
\* missing after the explicit keys are applied, the call makes exactly one
\* location lookup, and if it returns data every one of these fields that
\* was unset holds the value of the data afterwards.
C15_LookupFillsEveryUnsetField ==
    (CoreReturned /\ SomeLocationFieldMissing(HacExplicit)) =>
        /\ Len(LookupsOf("location")) = 1
        /\ ~IsNone(InfoOfCall) =>
            /\ IsNone(HacExplicit.latitude) =>
                  HacAfter.latitude = Get(InfoOfCall, CONF_LATITUDE)
            /\ IsNone(HacExplicit.longitude) =>
                  HacAfter.longitude = Get(InfoOfCall, CONF_LONGITUDE)
            /\ IsNone(HacExplicit.units) =>
                  HacAfter.units = (IF Get(InfoOfCall, <<"use_metric">>) = True
                                    THEN METRIC_SYSTEM ELSE IMPERIAL_SYSTEM)
            /\ IsNone(HacExplicit.location_name) =>
                  HacAfter.location_name = Get(InfoOfCall, <<"city">>)
            /\ IsNone(HacExplicit.time_zone) =>
                  HacAfter.time_zone = Get(InfoOfCall, CONF_TIME_ZONE)


\* C16: in every call where the elevation is unset and latitude and
\* longitude are known (from the explicit keys or just detected), the
\* elevation lookup is made exactly once, also when a location lookup was
\* made in the same call and returned no data.
C16_ElevationLookupIndependent ==
    (/\ CoreReturned
     /\ IsNone(HacExplicit.elevation)
     /\ ~IsNone(HacAfter.latitude) /\ ~IsNone(HacAfter.longitude)) =>
        Len(LookupsOf("elevation")) = 1


\* the core section of the last call has none of the keys
Omits(ks) == IsDict(core_call.config) /\ \A k \in ks : ~HasKey(core_call.config, k)

\* C17: when the core section omits latitude, longitude, time zone, units
\* and elevation and the location lookup returns data, then after the call
\* latitude, longitude, time zone and units are those of the data (metric
\* iff use_metric) and the elevation lookup is made after the location
\* lookup, exactly once, with the detected latitude and longitude.
C17_DetectedThenElevation ==
    (/\ Omits({CONF_LATITUDE, CONF_LONGITUDE, CONF_TIME_ZONE, CONF_UNIT_SYSTEM,
               CONF_TEMPERATURE_UNIT, CONF_ELEVATION})
     /\ Located) =>
        /\ HacAfter.latitude = Get(InfoOfCall, CONF_LATITUDE)
        /\ HacAfter.longitude = Get(InfoOfCall, CONF_LONGITUDE)
        /\ HacAfter.time_zone = Get(InfoOfCall, CONF_TIME_ZONE)
        /\ HacAfter.units = (IF Get(InfoOfCall, <<"use_metric">>) = True
                             THEN METRIC_SYSTEM ELSE IMPERIAL_SYSTEM)
        /\ Len(core_call.lookups) = 2
        /\ core_call.lookups[1].kind = "location"
        /\ core_call.lookups[2].kind = "elevation"
        /\ core_call.lookups[2].latitude = Get(InfoOfCall, CONF_LATITUDE)
        /\ core_call.lookups[2].longitude = Get(InfoOfCall, CONF_LONGITUDE)


\* a lookup of the kind was made in the last call and returned no data
LookupFailed(kind) ==
    /\ CoreCalled
    /\ Len(LookupsOf(kind)) = 1
    /\ IsNone(LookupsOf(kind)[1].answer)

\* C18: a lookup without data never raises and never aborts the load: the
\* call returns normally (auth manager and customize rules are in place),
\* every field that was unset before the failed lookup is still unset and
\* every field that was set keeps its value.
C18_FailedDetectionDegrades ==
    /\ LookupFailed("location") =>
          /\ ~core_call.raised
          /\ ~IsNone(opp.auth) /\ ~IsNone(opp.customize)
          /\ HacAfter = HacExplicit
    /\ LookupFailed("elevation") =>
          /\ ~core_call.raised
          /\ ~IsNone(opp.auth) /\ ~IsNone(opp.customize)
          /\ IsNone(HacAfter.elevation)
          /\ LookupsOf("location") = <<>> => HacAfter = HacExplicit
          /\ Located =>
                HacAfter = FromInfo([hac |-> HacExplicit, discovered |-> <<>>],
                                    InfoOfCall).hac

\* the location was detected, the elevation lookup that followed failed
C18_Witness ==
    /\ LookupFailed("elevation") /\ Located
    /\ IsNone(HacExplicit.latitude) /\ HacAfter.latitude = Str("41")
    /\ IsNone(HacAfter.elevation)
    /\ ~core_call.raised


\* the core section of the last call has the key with one of the values
KeyValueIn(k, values) ==
    HasKey(core_call.config, k) /\ Get(core_call.config, k).s \in values

\* C19: the unit-system key decides when present (imperial iff its value is
\* imperial, else metric) and the temperature-unit key is then ignored;
\* else the temperature-unit key decides when present (Celsius metric,
\* anything else imperial); else this step does not write the units, and
\* units that are unset are left to the detection (metric iff the lookup's
\* use_metric).
C19_UnitSystemPrecedence ==
    CoreReturned =>
        IF HasKey(core_call.config, CONF_UNIT_SYSTEM)
        THEN /\ HacExplicit.units =
                  (IF KeyValueIn(CONF_UNIT_SYSTEM, {"imperial", "Imperial"})
                   THEN IMPERIAL_SYSTEM ELSE METRIC_SYSTEM)
             /\ HacAfter.units = HacExplicit.units
        ELSE IF HasKey(core_call.config, CONF_TEMPERATURE_UNIT)
        THEN /\ HacExplicit.units =
                  (IF KeyValueIn(CONF_TEMPERATURE_UNIT, {"C", "c"})
                   THEN METRIC_SYSTEM ELSE IMPERIAL_SYSTEM)
             /\ HacAfter.units = HacExplicit.units
        ELSE /\ HacExplicit.units = HacBefore.units
             /\ (IsNone(HacExplicit.units) /\ Located) =>
                   HacAfter.units = (IF Get(InfoOfCall, <<"use_metric">>) = True
                                     THEN METRIC_SYSTEM ELSE IMPERIAL_SYSTEM)
             /\ (IsNone(HacExplicit.units) /\ ~Located) => IsNone(HacAfter.units)

\* the unit system says metric, the temperature unit Fahrenheit: metric
C19_Witness ==
    /\ CoreReturned
    /\ Get(core_call.config, CONF_UNIT_SYSTEM) = Str("metric")
    /\ Get(core_call.config, CONF_TEMPERATURE_UNIT) = Str("f")
    /\ HacAfter.units = METRIC_SYSTEM


\* location, elevation, name, time zone and unit system of a CoreConfig
Settings(hac) ==
    <<hac.latitude, hac.longitude, hac.elevation, hac.location_name, hac.time_zone,
      hac.units>>

\* the last call alone on a fresh CoreConfig, the detection returning no data
AloneOnFresh ==
    async_process_ha_core_config(NewOpp, core_call.config, None, None, None, None)

\* C20: the CoreConfig is replaced wholesale on reload: after a first call
\* and a reload whose detection returns no data (or is not needed), the
\* location, elevation, name, time zone and unit system are those the
\* section of the reload alone gives on a fresh CoreConfig.
C20_ReloadReplacesCoreConfig ==
    (/\ ncalls = 2 /\ CoreReturned
     /\ ~IsNone(core_call.before.auth)
     /\ \A i \in 1..Len(core_call.lookups) : IsNone(core_call.lookups[i].answer)) =>
        Settings(HacAfter) = Settings(AloneOnFresh.opp.config)


\* the last call processed the section of the call before it once more
SameSectionAgain == ncalls >= 2 /\ CoreReturned /\ core_call.previous = core_call.config

\* C21: processing the same valid core section a second time leaves the
\* CoreConfig (whitelist included), the customize rule sets and the auth
\* manager as the first run left them, up to what the detection of the second
\* run finds for fields that were still unset; the second run makes a lookup
\* only for fields that are unset after the first.
C21_IdempotentModuloDetection ==
    SameSectionAgain =>
        /\ opp.auth = core_call.before.auth
        /\ opp.customize = core_call.before.customize
        /\ HacExplicit = HacBefore
        /\ HacAfter.whitelist_external_dirs = HacBefore.whitelist_external_dirs
        /\ \A f \in {"latitude", "longitude", "elevation", "location_name",
                     "time_zone", "units"} :
              ~IsNone(HacBefore[f]) => HacAfter[f] = HacBefore[f]
        /\ (\A i \in 1..Len(core_call.lookups) : IsNone(core_call.lookups[i].answer))
              => opp = core_call.before
        /\ LookupsOf("location") # <<>> =>
              \E f \in {"latitude", "longitude", "time_zone", "units"} : IsNone(HacBefore[f])
        /\ LookupsOf("elevation") # <<>> => IsNone(HacBefore.elevation)

\* the first run detected the location but no elevation, the second run of
\* the same section looks up the elevation only
C21_Witness ==
    /\ SameSectionAgain
    /\ IsDict(core_call.config) /\ ~HasKey(core_call.config, CONF_LATITUDE)
    /\ HacBefore.latitude = Str("41") /\ IsNone(HacBefore.elevation)
    /\ ~IsNone(HacBefore.time_zone) /\ ~IsNone(HacBefore.units)
    /\ Len(core_call.lookups) = 1 /\ core_call.lookups[1].kind = "elevation"
    /\ HacAfter.elevation = Str("20")
    /\ HacAfter.latitude = Str("41")


\* the packages of the last section, in iteration order, and the core
\* sub-section of the i-th
CorePkgs == Get(core_call.config, CONF_PACKAGES).d
CoreOf(i) == Get(CorePkgs[i][2], CONF_CORE)

\* the packages whose core sub-section has a rule for k in the rule set
Providers(set_key, k) ==
    {i \in 1..Len(CorePkgs) : CoreOf(i) \in GoodCores /\ HasKey(Get(CoreOf(i), set_key), k)}

\* the keys the rule set is expected to have, and the rule expected for k:
\* that of the last package that has one, else the explicit one
ExpectedKeys(set_key) ==
    Keys(Get(core_call.config, set_key)) \cup {k \in {KITCHEN, HALL, LIGHT, GLOB} :
                                                  Providers(set_key, k) # {}}
ExpectedRule(set_key, k) ==
    IF Providers(set_key, k) = {} THEN Get(Get(core_call.config, set_key), k)
    ELSE LET last == CHOOSE i \in Providers(set_key, k) :
                        \A j \in Providers(set_key, k) : j <= i
         IN Get(Get(CoreOf(last), set_key), k)

\* C22: the final exact, domain and glob rule sets are the explicit rules
\* of the core section updated with the rules of every package's core
\* sub-section in package order; a package whose core sub-section fails the
\* customize schema contributes nothing and raises nothing, the rules of the
\* other packages and of the section are applied all the same.
C22_CustomizeLayering ==
    (CoreCalled /\ core_call.config \in CustomizeSections) =>
        /\ ~core_call.raised
        /\ \A set_key \in CustomizeKeys :
              /\ Keys(Get(opp.customize, set_key)) = ExpectedKeys(set_key)
              /\ \A k \in ExpectedKeys(set_key) :
                    Get(Get(opp.customize, set_key), k) = ExpectedRule(set_key, k)

\* an invalid core sub-section first, then a package that overrides the
\* explicit rule of the kitchen light
C22_Witness ==
    /\ CoreReturned /\ core_call.config \in CustomizeSections
    /\ Len(CorePkgs) = 2
    /\ CoreOf(1) \in BadCores /\ CoreOf(2) \in GoodCores
    /\ Get(Get(core_call.config, CONF_CUSTOMIZE), KITCHEN) = HIDDEN
    /\ Get(Get(opp.customize, CONF_CUSTOMIZE), KITCHEN) = SHOWN
    /\ Get(Get(opp.customize, CONF_CUSTOMIZE_DOMAIN), LIGHT) = HIDDEN


-----------------------------------------------------------------------------
(* Direct reports of set-up errors: async_notify_setup_error called for a
   component, with or without the link to its documentation *)

MaxReports == 4

DEVICE_TRACKER == <<"device", "_", "tracker">>
ReportedComponents == {LIGHT, HTTP, DEVICE_TRACKER}

InitNotify ==
    /\ config = Dict(<<>>)
    /\ config0 = config
    /\ packages = None
    /\ pkg_errors = <<>>
    /\ outcome = "init"
    /\ processed = <<>>
    /\ reporter = NoReports
    /\ InitCore
    /\ InitIdle

NotifySetupError ==
    /\ Len(reports) < MaxReports
    /\ \E component \in ReportedComponents, display_link \in BOOLEAN :
        /\ reporter' = async_notify_setup_error(reporter, component, display_link)
        /\ reports' = Append(reports, [component |-> component,
                                       display_link |-> display_link])
    /\ UNCHANGED <<config, mergeVars, processed, coreVars, authVars>>

NextNotify == NotifySetupError

SpecNotify == InitNotify /\ [][NextNotify]_vars

\* the components reported so far, and whether some report of the
\* component asked for the link
Reported == {reports[i].component : i \in 1..Len(reports)}
AskedLink(component) ==
    \E i \in 1..Len(reports) :
       reports[i].component = component /\ reports[i].display_link

\* C23: after any sequence of reports the error map holds every reported
\* component exactly once, its link flag is true exactly when some report of
\* the component asked for the link, and the one 'invalid_config'
\* notification lists every component of the map, as a link when flagged.
C23_ErrorMapAccumulates ==
    reports # <<>> =>
        /\ {reporter.errors[i][1] : i \in 1..Len(reporter.errors)} = Reported
        /\ Len(reporter.errors) = Cardinality(Reported)
        /\ \A i \in 1..Len(reporter.errors) :
              reporter.errors[i][2] <=> AskedLink(reporter.errors[i][1])
        /\ Len(reporter.notification) = Cardinality(Reported)
        /\ {reporter.notification[i] : i \in 1..Len(reporter.notification)}
              = {IF AskedLink(c) THEN HA_COMPONENT_URL(c) ELSE c : c \in Reported}

\* a component reported with the link and then without it, and another one
C23_Witness ==
    /\ Len(reports) = 3
    /\ reports[1] = [component |-> DEVICE_TRACKER, display_link |-> TRUE]
    /\ reports[2] = [component |-> HTTP, display_link |-> FALSE]
    /\ reports[3] = [component |-> DEVICE_TRACKER, display_link |-> FALSE]
    /\ reporter.errors = << <<DEVICE_TRACKER, TRUE>>, <<HTTP, FALSE>> >>
    /\ reporter.notification = <<HA_COMPONENT_URL(DEVICE_TRACKER), HTTP>>


-----------------------------------------------------------------------------
(* The duplicate checks of the two auth lists, applied to lists of entries
   that passed their item schema *)

MaxAuthEntries == 3

\* the types and ids of the entries; "totp" is a type and an id
AuthTypes == {"totp", "notify"}
AuthIds == {"totp", "one"}

AuthEntries ==
    {Dict(<< <<CONF_TYPE, Str(t)>> >>) : t \in AuthTypes}
    \cup {Dict(<< <<CONF_TYPE, Str(t)>>, <<CONF_ID, Str(id)>> >>) :
             t \in AuthTypes, id \in AuthIds}

AuthLists ==
    {List(l) : l \in UNION {[1..n -> AuthEntries] : n \in 0..MaxAuthEntries}}

InitAuth ==
    /\ config = Dict(<<>>)
    /\ config0 = config
    /\ packages = None
    /\ pkg_errors = <<>>
    /\ outcome = "init"
    /\ processed = <<>>
    /\ reporter = NoReports
    /\ InitCore
    /\ reports = <<>>
    /\ auth_configs \in AuthLists
    /\ auth_checked = NotChecked

CheckProviders ==
    /\ auth_checked.check = "none"
    /\ \E r \in {_no_duplicate_auth_provider(auth_configs)} :
          auth_checked' = [check |-> "provider", ok |-> r.ok, value |-> r.value]
    /\ UNCHANGED <<config, mergeVars, validateVars, coreVars, notifyVars, auth_configs>>

CheckMfaModules ==
    /\ auth_checked.check = "none"
    /\ \E r \in {_no_duplicate_auth_mfa_module(auth_configs)} :
          auth_checked' = [check |-> "mfa", ok |-> r.ok, value |-> r.value]
    /\ UNCHANGED <<config, mergeVars, validateVars, coreVars, notifyVars, auth_configs>>

NextAuth == CheckProviders \/ CheckMfaModules

SpecAuth == InitAuth /\ [][NextAuth]_vars

\* the type of the i-th entry, and its id as a set: empty without one
TypeOf(i) == Get(auth_configs.l[i], CONF_TYPE).s
IdOf(i) ==
    IF HasKey(auth_configs.l[i], CONF_ID)
    THEN {Get(auth_configs.l[i], CONF_ID).s} ELSE {}

\* the key of the i-th entry as an MFA module
ModuleKey(i) == IF IdOf(i) = {} THEN TypeOf(i) ELSE CHOOSE id \in IdOf(i) : TRUE

\* C24: a provider list is rejected exactly when two entries have the same
\* type and the same optional id; an MFA module list is rejected exactly
\* when two entries have the same key, the id when present and else the
\* type; an accepted list is returned unchanged.
C24_DuplicateDetection ==
    /\ auth_checked.check = "provider" =>
          /\ ~auth_checked.ok <=>
                \E i, j \in 1..Len(auth_configs.l) :
                   i # j /\ TypeOf(i) = TypeOf(j) /\ IdOf(i) = IdOf(j)
          /\ auth_checked.ok => auth_checked.value = auth_configs
    /\ auth_checked.check = "mfa" =>
          /\ ~auth_checked.ok <=>
                \E i, j \in 1..Len(auth_configs.l) :
                   i # j /\ ModuleKey(i) = ModuleKey(j)
          /\ auth_checked.ok => auth_checked.value = auth_configs

\* an MFA module list rejected because the id of one entry is the type of
\* another, which has no id
C24_Witness ==
    /\ auth_checked.check = "mfa" /\ ~auth_checked.ok
    /\ Len(auth_configs.l) = 2
    /\ IdOf(1) = {} /\ TypeOf(1) = "totp"
    /\ TypeOf(2) = "notify" /\ IdOf(2) = {"totp"}


-----------------------------------------------------------------------------
(* Domains whose config schema is neither a dict nor a list *)

\* the packages with a fragment for k, and those whose fragment is a mapping
WithFragment(k) == {i \in 1..Len(packages.d) : HasFragment(i, k)}
WithMapping(k) == {i \in WithFragment(k) : IsDict(Fragment(i, k))}

ErrorsWith(pack_name, comp_name, message) ==
    {n \in ErrorsOf(pack_name, comp_name) : pkg_errors[n].message = message}

\* the runs with a fragment for script, whose schema is 'All(...)'
ScriptRun ==
    /\ Returned /\ config0 \in WideTrees
    /\ IsDict(packages) /\ WithFragment(SCRIPT) # {}

\* C25 as claimed: the entry of a domain whose config schema is neither a
\* dict nor a list is the original entry as a list followed by the
\* fragments of the packages, as for a list-classified domain.
C25_UnclassifiedListAppend ==
    ScriptRun =>
        /\ HasKey(config, SCRIPT)
        /\ Get(config, SCRIPT) = List(ensure_list(Get(config0, SCRIPT)).l \o Appended(SCRIPT, 1))

\* C25 amended: such a domain is merged as a dict-classified one is.  A list
\* fragment is never appended: it gets one 'expected a dict' error.  A
\* mapping fragment is merged key by key into the entry, the first value of
\* a key being kept, or gets one 'dict expected in main config' error when
\* the tree holds a list for the domain, which is then left as it was.
C25_UnclassifiedDictMerged ==
    ScriptRun =>
        /\ \A i \in WithFragment(SCRIPT) :
              /\ Cardinality(ErrorsWith(PackName(i), SCRIPT, EXPECTED_A_DICT))
                    = IF IsList(Fragment(i, SCRIPT)) THEN 1 ELSE 0
              /\ Cardinality(ErrorsWith(PackName(i), SCRIPT, DICT_IN_MAIN))
                    = IF IsDict(Fragment(i, SCRIPT)) /\ IsList(Get(config0, SCRIPT))
                      THEN 1 ELSE 0
        /\ IF IsList(Get(config0, SCRIPT))
           THEN Get(config, SCRIPT) = Get(config0, SCRIPT)
           ELSE IF WithMapping(SCRIPT) = {}
           THEN ~HasKey(config, SCRIPT)
           ELSE /\ IsDict(Get(config, SCRIPT))
                /\ Keys(Get(config, SCRIPT))
                      = UNION {Keys(Fragment(i, SCRIPT)) : i \in WithMapping(SCRIPT)}
                /\ \A i \in WithMapping(SCRIPT) : \A k \in Keys(Fragment(i, SCRIPT)) :
                      (\A j \in WithMapping(SCRIPT) : j < i => ~HasKey(Fragment(j, SCRIPT), k))
                      => Get(Get(config, SCRIPT), k) = Get(Fragment(i, SCRIPT), k)

\* a list fragment rejected, then a mapping fragment that makes the entry
C25_Witness ==
    /\ ScriptRun /\ ~HasKey(config0, SCRIPT)
    /\ Fragment(1, SCRIPT) = List(<<Entry2>>)
    /\ Fragment(2, SCRIPT) = Entry1
    /\ Get(config, SCRIPT) = Entry1
    /\ Cardinality(ErrorsWith(PKG1, SCRIPT, EXPECTED_A_DICT)) = 1


-----------------------------------------------------------------------------
(* Fragments and entries of a dict-merged domain that are no mapping *)

\* the runs over several domains with a fragment for http
HttpRun ==
    /\ Returned /\ config0 \in WideTrees
    /\ IsDict(packages) /\ WithFragment(HTTP) # {}

\* the tree holds a value for http that is neither a mapping nor null
MainNotDict == HasKey(config0, HTTP) /\ Get(config0, HTTP).t \in {"list", "str"}

\* the list-style entries of package i are appended as if the package had
\* no entry for http
OthersMerged(i) ==
    \A k \in {c \in Keys(packages.d[i][2]) : FirstToken(c) \in ListStyleDomains} :
        ~Falsy(Fragment(i, k)) =>
            Get(config, k) = List(ensure_list(Get(config0, k)).l \o Appended(k, 1))

\* C26: a fragment for a dict-merged domain that is no mapping gets one
\* 'expected a dict' error and nothing else, and a mapping fragment gets one
\* 'dict expected in main config' error when the tree holds a non-dict for
\* the domain; in both cases the entry of the domain stays as it was, no key
\* being made for it, and the other entries of the package are merged.
C26_NonMappingRejected ==
    HttpRun =>
        /\ \A i \in WithFragment(HTTP) :
              /\ IsList(Fragment(i, HTTP)) =>
                    /\ Cardinality(ErrorsWith(PackName(i), HTTP, EXPECTED_A_DICT)) = 1
                    /\ Cardinality(ErrorsOf(PackName(i), HTTP)) = 1
                    /\ OthersMerged(i)
              /\ (~IsList(Fragment(i, HTTP)) /\ MainNotDict) =>
                    /\ Cardinality(ErrorsWith(PackName(i), HTTP, DICT_IN_MAIN)) = 1
                    /\ Cardinality(ErrorsOf(PackName(i), HTTP)) = 1
                    /\ OthersMerged(i)
        /\ (MainNotDict \/ \A i \in WithFragment(HTTP) : IsList(Fragment(i, HTTP))) =>
              /\ HasKey(config, HTTP) = HasKey(config0, HTTP)
              /\ Get(config, HTTP) = Get(config0, HTTP)

\* a list fragment for http in a tree without http, before an entry for
\* light in the same package
C26_Witness ==
    /\ HttpRun /\ ~HasKey(config0, HTTP)
    /\ packages.d[1][2] = Dict(<< <<HTTP, List(<<Entry2>>)>>, <<LIGHT, Entry1>> >>)
    /\ ~HasFragment(2, HTTP) /\ ~HasFragment(2, LIGHT)
    /\ ~HasKey(config, HTTP)
    /\ Get(config, LIGHT) = List(<<Entry1, Entry1>>)
    /\ Cardinality(ErrorsWith(PKG1, HTTP, EXPECTED_A_DICT)) = 1


-----------------------------------------------------------------------------
(* Completion of the merge *)

\* C27: for packages that pass the package schema, and any tree,
\* merge_packages_config returns; it does not raise when a nested key of a
\* dict-merged domain holds a scalar or null in the tree and a non-empty
\* mapping in the fragment.
C27_MergeCompletes ==
    (Called /\ PACKAGES_CONFIG_SCHEMA(packages)) => Returned


\* the http entry after the first package has been merged
Mid == Get(merge_packages_config(config0, Dict(<<packages.d[1]>>)).config, HTTP)

\* The first leaf of the fragment, in iteration order, is a scalar and the
\* destination already holds a non-null value for it: at the top level, or
\* one mapping down
ConflictAtFirstLeaf(dest, f) ==
    /\ IsDict(dest) /\ IsDict(f) /\ f.d # <<>>
    /\ \/ /\ f.d[1][2].t = "str"
          /\ ~IsNone(Get(dest, f.d[1][1]))
       \/ /\ IsDict(f.d[1][2]) /\ f.d[1][2].d # <<>>
          /\ f.d[1][2].d[1][2].t = "str"
          /\ IsDict(Get(dest, f.d[1][1]))
          /\ ~IsNone(Get(Get(dest, f.d[1][1]), f.d[1][2].d[1][1]))

\* C28: a scalar of a package left unmerged because the destination holds a
\* non-null value for its key, at the top level of the fragment or inside a
\* nested mapping, gets a duplicate-key error for the package and the domain,
\* also when a later nested mapping of the fragment merges without conflict.
C28_ConflictReported ==
    (DeepRun /\ Returned) =>
        /\ ConflictAtFirstLeaf(Dest0, F1) => ErrorsWith(PKG1, HTTP, DUPLICATE_KEY) # {}
        /\ ConflictAtFirstLeaf(Mid, F2) => ErrorsWith(PKG2, HTTP, DUPLICATE_KEY) # {}


-----------------------------------------------------------------------------
(* Keys with a descriptor, and the reserved core key *)

\* the runs over several domains with packages that pass the package schema
WideRun == Returned /\ config0 \in WideTrees /\ IsDict(packages)

\* every entry of every package has the key k
OnlyKey(k) == \A i \in 1..Len(packages.d) : Keys(packages.d[i][2]) = {k}

\* C29: the fragment of an entry 'light 2' is appended under the key
\* 'light 2', the entry of 'light' being made of the fragments for 'light'
\* alone; entries for the core key change no key of the tree and log nothing.
C29_FullKeyAndCoreSkipped ==
    WideRun =>
        /\ WithFragment(LIGHT_2) # {} =>
              /\ Get(config, LIGHT_2)
                    = List(ensure_list(Get(config0, LIGHT_2)).l \o Appended(LIGHT_2, 1))
              /\ IF Appended(LIGHT, 1) = <<>>
                 THEN /\ HasKey(config, LIGHT) = HasKey(config0, LIGHT)
                      /\ Get(config, LIGHT) = Get(config0, LIGHT)
                 ELSE Get(config, LIGHT)
                         = List(ensure_list(Get(config0, LIGHT)).l \o Appended(LIGHT, 1))
        /\ WithFragment(CONF_CORE) # {} =>
              /\ ~HasKey(config, CONF_CORE)
              /\ \A n \in 1..Len(pkg_errors) : pkg_errors[n].component # CONF_CORE
              /\ OnlyKey(CONF_CORE) => config = config0

\* a fragment for 'light 2' merged into a tree that holds 'light', in a
\* package that also has a core entry
C29_Witness ==
    /\ WideRun
    /\ config0 = Dict(<< <<LIGHT, Entry1>> >>)
    /\ packages.d[1][2] = Dict(<< <<CONF_CORE, Entry1>>, <<LIGHT_2, List(<<Entry2>>)>> >>)
    /\ packages.d[2][2] = Dict(<< <<CONF_CORE, Entry1>> >>)
    /\ config = Dict(<< <<LIGHT, Entry1>>, <<LIGHT_2, List(<<Entry2>>)>> >>)


-----------------------------------------------------------------------------
(* The tree handed to the validator *)

\* the set-ups of a domain that declares no schema at all
NoSchemaRuns == {i \in 1..Len(processed) : processed[i].domain = "sun"}

=============================================================================
